---- MODULE Spec2Model ----
(***************************************************************************)
(* The memory-management core of the kernel (kernel/src/mem, kernel/src/   *)
(* utils): the address model, MemoryInfo, the page allocator with its two  *)
(* pools and their used-map bitmaps, the bitmap scan, the heap allocator   *)
(* (kernel/src/mem/alloc.rs) built on the page allocator, and the          *)
(* interrupt state (kernel/src/threads/interrupt.rs).                      *)
(*                                                                         *)
(* Options are sequences: None is <<>>, Some(v) is <<v>>.  A bitmap is a    *)
(* sequence of BOOLEAN (TRUE = used); bit i of the code is element i+1.     *)
(***************************************************************************)
EXTENDS Integers, Sequences, FiniteSets, TLC

VARIABLES
    phase,        \* position of kernel_main in its boot sequence
    MEMORY_INFO,  \* the global MemoryInfo record
    used_map,     \* pool -> Option(bitmap): Pool::used_map
    base,         \* pool -> address: Pool::base
    avail_pages,  \* pool -> the num_pages Pool::init prints as available
    panicked,     \* the kernel has panicked (panic handler powers off)
    last,         \* the most recently completed page-allocator call
    held,         \* the latest successful get_pages since the last free_pages
    pc,           \* per thread: position inside get_pages
    call,         \* per thread: arguments and locals of the running call
    cret,         \* per thread: what its latest get_pages returned
    scan_in,      \* the arguments of a BitSliceScan::scan call
    scan_out,     \* its result, once the call is done
    init_locals,  \* the locals of the PageAllocator::init call, once it ran
    heap_init,    \* init_heap has run
    descs,        \* descriptor -> block_size, blocks_per_arena, free_list
    desc_lock,    \* descriptor -> the thread holding its spin lock
    arenas,       \* page address -> the Arena header stamped there
    block_next,   \* block address -> the next field written there
    hpc,          \* per thread: idle, or spinning on a lock inside a heap call
    hlast,        \* the most recent heap call and how far it got
    live,         \* the allocations handed out and not yet given back
    members,      \* the blocks pushed on a free list and not yet taken off it
    boot_arg,     \* the boot info MemoryInfo::init was called with
    mi_lock,      \* the thread holding the MEMORY_INFO spin lock
    mi_pc,        \* per thread: position inside MemoryInfo::init or ::get
    mi_local,     \* per thread: the local `info` of its MemoryInfo::init
    mi_seen,      \* per thread: what its latest MemoryInfo::get returned
    INITIALIZED,  \* the flag Interrupts::init swaps
    HANDLERS,     \* interrupt index -> the registered handler
    int_enabled,  \* the CPU's interrupt flag
    int_pc,       \* per thread: position inside Interrupts::init
    table_setups, \* how often the interrupt table was filled and loaded
    fn_in,        \* the arguments of a function called on its own
    fn_out,       \* its result, once the call is done
    map_lock,     \* pool -> who holds the spin lock of its used map
    irq           \* the interrupt handler on the CPU, if one is running

vars == <<phase, MEMORY_INFO, used_map, base, avail_pages, panicked, last, held,
          pc, call, cret, scan_in, scan_out, init_locals,
          heap_init, descs, desc_lock, arenas, block_next, hpc, hlast, live,
          members, boot_arg, mi_lock, mi_pc, mi_local, mi_seen,
          INITIALIZED, HANDLERS, int_enabled, int_pc, table_setups, fn_in, fn_out,
          map_lock, irq>>

heap_vars == <<heap_init, descs, desc_lock, arenas, block_next, hpc, hlast, live>>

mi_vars == <<mi_lock, mi_pc, mi_local, mi_seen>>

int_vars == <<INITIALIZED, HANDLERS, int_enabled, int_pc, table_setups>>

fn_vars == <<fn_in, fn_out>>

irq_vars == <<map_lock, irq>>

aux_vars == <<members, boot_arg, mi_vars, int_vars, fn_vars, irq_vars>>

-----------------------------------------------------------------------------
(* Bounds of the model *)

\* Bits of the one usize word the used map is built from (64 in the build).
WordBits == 3
\* Longest bit slice handed to scan on its own.
ScanLen == 6

-----------------------------------------------------------------------------
(* Options *)

None == <<>>
Some(v) == <<v>>

CeilDiv(a, b) == (a + b - 1) \div b
Min(a, b) == IF a < b THEN a ELSE b

-----------------------------------------------------------------------------
(* kernel/src/mem/mod.rs: the address model *)

PAGE_OFFSET_BITS == 12
PAGE_SIZE == 2 ^ PAGE_OFFSET_BITS
\* 0xc0000000 in the source; a quarter of it here, so that every address stays
\* inside TLC's 32-bit integers.  Only its page alignment is used.
PHYS_BASE == 805306368

page_offset(a) == a % PAGE_SIZE
page_num(a) == a \div PAGE_SIZE

PhysicalAddress_new(val) == val + MEMORY_INFO.base_address
to_kernel_virtual(p) == p + MEMORY_INFO.base_virtual_address + PHYS_BASE

\* VirtualAddress::is_user
is_user(v) == v < MEMORY_INFO.base_virtual_address + PHYS_BASE

\* a split that counts its own first address to neither side
is_kernel_above(v) == v > MEMORY_INFO.base_virtual_address + PHYS_BASE
\* VirtualAddress::is_kernel
is_kernel(v) == v >= MEMORY_INFO.base_virtual_address + PHYS_BASE

\* VirtualAddress::to_kernel_physical: the assertion, then PhysicalAddress::new
\* of the offset, which adds the base address
to_kernel_physical(v) ==
    IF ~is_kernel(v) THEN [panic |-> TRUE, val |-> 0]
    ELSE [panic |-> FALSE,
          val |-> PhysicalAddress_new(v - MEMORY_INFO.base_virtual_address - PHYS_BASE)]

-----------------------------------------------------------------------------
(* kernel/src/utils/mod.rs: BitSliceScan *)

\* self.get(from..to): the sub-slice, or None when it leaves the slice
SliceGet(bits, from, to) ==
    IF 0 <= from /\ from <= to /\ to <= Len(bits)
    THEN Some(SubSeq(bits, from + 1, to)) ELSE None

\* the window accepted when any one bit of it has the value
IsValidAny(sub, val) == \E k \in 1..Len(sub) : sub[k] = val
\* sub_slice.all() / sub_slice.not_any()
IsValid(sub, val) == \A k \in 1..Len(sub) : sub[k] = val

\* self.get(start..(start + num)): where the window tested in iteration i begins
ScanWindow(start, i) == start

RECURSIVE ScanLoop(_, _, _, _, _, _)
\* for i in start..=last { ... }
ScanLoop(bits, start, num, val, i, lastI) ==
    IF i > lastI THEN None
    ELSE LET w == ScanWindow(start, i)
             sub == SliceGet(bits, w, w + num)
         IN  IF sub = None THEN None
             ELSE IF IsValid(sub[1], val) THEN Some(i)
             ELSE ScanLoop(bits, start, num, val, i + 1, lastI)

scan(bits, start, num, val) ==
    IF start > Len(bits) THEN None
    ELSE IF start + num <= Len(bits)
         THEN ScanLoop(bits, start, num, val, start, Len(bits) - num)
         ELSE None

\* slice.fill(val) on bits [from, to)
Fill(bits, from, to, val) ==
    [k \in 1..Len(bits) |-> IF from < k /\ k <= to THEN val ELSE bits[k]]

\* .fill(val): the value scan_and_flip writes into the run it found
FlipValue(val) == val

\* Returns the index and the slice as it is left.
scan_and_flip(bits, start, num, val) ==
    LET idx == scan(bits, start, num, val) IN
    IF idx = None THEN [idx |-> None, bits |-> bits]
    ELSE IF SliceGet(bits, start, start + num) = None THEN [idx |-> None, bits |-> bits]
    ELSE [idx |-> idx, bits |-> Fill(bits, start, start + num, FlipValue(val))]

-----------------------------------------------------------------------------
(* kernel/src/mem/mod.rs: MemoryInfo *)

\* The offset below which PageAllocator::init never allocates (1024 * 1024).
MEM_START == 1048576

\* Pages between MEM_START and the end of the usable region in the boot
\* infos enumerated here: several bitmap words' worth, as on a real machine.
FreePages == 4 * WordBits
UsableSize == MEM_START + FreePages * PAGE_SIZE

\* A boot info whose first usable region has the given start and size.
BootInfoSized(start, size, offset) ==
    [memory_regions |->
        << [start |-> 0, end |-> start, kind |-> "Bootloader"],
           [start |-> start, end |-> start + size, kind |-> "Usable"],
           [start |-> start + size + PAGE_SIZE,
            end |-> start + size + 3 * PAGE_SIZE, kind |-> "Usable"] >>,
     physical_memory_offset |-> offset]

BootInfo(start, offset) == BootInfoSized(start, UsableSize, offset)

\* The boot info of the runs checked here: the usable region starts at 2 MiB and
\* the boot loader maps physical memory at a page-aligned offset.
BootInfos == { BootInfo(512 * PAGE_SIZE, Some(4096 * PAGE_SIZE)) }

RECURSIVE FirstUsable(_, _, _)
\* a loop that goes on to the regions after the one it took
NoBreak(regions, k, info) == FirstUsable(regions, k + 1, info)
\* break (line 126): the regions after k are not looked at
Break(regions, k, info) == info

\* for region in memory_regions { if Usable { ...; break } }
FirstUsable(regions, k, info) ==
    IF k > Len(regions) THEN info
    ELSE IF regions[k].kind = "Usable"
         THEN Break(regions, k,
                    [info EXCEPT !.base_address = regions[k].start,
                                 !.size = regions[k].end - regions[k].start])
         ELSE FirstUsable(regions, k + 1, info)

MemoryInfo_get == MEMORY_INFO

\* Lines 122-130: the record init builds in its local copy `info`
InfoOf(boot_info, info) ==
    LET off == boot_info.physical_memory_offset
    IN  [FirstUsable(boot_info.memory_regions, 1, info)
            EXCEPT !.base_virtual_address = IF off = None THEN 0 ELSE off[1]]

MemoryInfo_init(boot_info) ==
    /\ phase = "boot"
    /\ ~panicked
    /\ MEMORY_INFO' = InfoOf(boot_info, MemoryInfo_get)
    /\ phase' = "mem"
    /\ UNCHANGED <<used_map, base, avail_pages, panicked, last, held,
                   pc, call, cret, scan_in, scan_out, init_locals, heap_vars>>
    /\ boot_arg' = Some(boot_info)
    /\ UNCHANGED <<members, irq_vars, mi_vars, int_vars, fn_vars>>

-----------------------------------------------------------------------------
(* kernel/src/mem/pages.rs: the page allocator *)

Pools == {"kernel", "user"}
Flags == SUBSET {"Zero", "User"}

\* Every content the one word at the pool's base can hold: Pool::init builds
\* the bitmap over that word without writing it.
BitWords == [1..WordBits -> BOOLEAN]

\* UsedMapType is usize: 64 bits in 8 bytes on the x86_64 target.  The sizes
\* Pool::init computes use the real width; the content of the one word the
\* bitmap is built over is modelled with WordBits bits.
USIZE_BITS == 64
USIZE_BYTES == 8

\* bitvec::mem::elts::<usize>(n): the words needed for n bits
elts(n) == CeilDiv(n, USIZE_BITS)

\* Pool::init(base, num_pages) with `word` the content of the memory at base.
Pool_init(b, num_pages, word) ==
    LET bitmap_pages == CeilDiv(elts(num_pages), PAGE_SIZE) IN
    IF bitmap_pages > num_pages
    THEN [panic |-> TRUE, used_map |-> None, base |-> 0, avail |-> 0]
    ELSE [panic |-> FALSE,
          used_map |-> Some(word),
          base |-> b + bitmap_pages * PAGE_SIZE,
          avail |-> num_pages - bitmap_pages]

\* main.rs passes u64::MAX; any limit above half the free pages acts alike.
USER_PAGE_LIMIT_MAX == 1073741824
\* A limit that leaves the user pool fewer pages than one bitmap word has bits,
\* and the limit of main.rs.
UserPageLimits == {WordBits, USER_PAGE_LIMIT_MAX}

\* The whole free region goes to the user pool's half.
UserPagesUncapped(free_pages_n, user_page_limit) == free_pages_n \div 2
\* (free_pages / 2).min(user_page_limit)
UserPages(free_pages_n, user_page_limit) == Min(free_pages_n \div 2, user_page_limit)

PageAllocator_init(user_page_limit, kword, uword) ==
    /\ phase = "mem"
    /\ ~panicked
    /\ LET free_start == to_kernel_virtual(PhysicalAddress_new(MEM_START))
           free_end == to_kernel_virtual(PhysicalAddress_new(MemoryInfo_get.size))
       IN  IF free_end < free_start
           THEN \* the subtraction overflows
                /\ panicked' = TRUE
                /\ UNCHANGED <<used_map, base, avail_pages, phase, init_locals>>
           ELSE LET free_pages_n == (free_end - free_start) \div PAGE_SIZE
                    user_pages == UserPages(free_pages_n, user_page_limit)
                    kernel_pages == free_pages_n - user_pages
                    k == Pool_init(free_start, kernel_pages, kword)
                    u == Pool_init(free_start + kernel_pages * PAGE_SIZE, user_pages, uword)
                IN  /\ init_locals' = Some([user_page_limit |-> user_page_limit,
                                            free_pages |-> free_pages_n,
                                            user_pages |-> user_pages,
                                            kernel_pages |-> kernel_pages,
                                            kernel_start |-> free_start,
                                            user_start |-> free_start + kernel_pages * PAGE_SIZE,
                                            kernel_panic |-> k.panic,
                                            user_panic |-> ~k.panic /\ u.panic])
                    /\ IF k.panic
                       THEN /\ panicked' = TRUE
                            /\ UNCHANGED <<used_map, base, avail_pages, phase>>
                       ELSE /\ used_map' = [used_map EXCEPT !["kernel"] = k.used_map,
                                                            !["user"] = IF u.panic THEN @ ELSE u.used_map]
                            /\ base' = [base EXCEPT !["kernel"] = k.base,
                                                    !["user"] = IF u.panic THEN @ ELSE u.base]
                            /\ avail_pages' = [avail_pages EXCEPT !["kernel"] = k.avail,
                                                                  !["user"] = IF u.panic THEN @ ELSE u.avail]
                            /\ panicked' = u.panic
                            /\ phase' = IF u.panic THEN phase ELSE "run"
    /\ UNCHANGED <<MEMORY_INFO, last, held, pc, call, cret, scan_in, scan_out, heap_vars>>
    /\ UNCHANGED aux_vars

\* match flags.contains(PageAllocFlags::User)
PoolOf(flags) == IF "User" \in flags THEN "user" ELSE "kernel"

\* Lines 60-65 of get_pages, run under the pool's used_map lock: the page index
\* (or None) and the used map as the lock is released.
get_pages_locked(pool, num) ==
    IF used_map[pool] = None THEN [idx |-> None, map |-> used_map[pool]]
    ELSE LET r == scan_and_flip(used_map[pool][1], 0, num, FALSE)
         IN  [idx |-> r.idx, map |-> Some(r.bits)]

\* Lines 67-76 of get_pages: the address handed back for page index idx.
get_pages_addr(pool, idx) ==
    LET pages == base[pool] + PAGE_SIZE * idx
    IN  IF pages = 0 THEN None ELSE Some(pages)

\* Pool::contains_page
contains_page(pool, page) ==
    LET page_no == page_num(page)
        start_page == page_num(base[pool])
        num_pages == Len(used_map[pool][1])
    IN  page_no >= start_page /\ page_no < start_page + num_pages

NoCall == [op |-> "none", flags |-> {}, num |-> 0, ptr |-> None, ret |-> None,
           of_held |-> FALSE, changed |-> FALSE]

\* get_pages without its check of num
NumCheckSkipped(num) == FALSE
\* if num == 0 { return None; }
NumIsZero(num) == num = 0

\* PageAllocator::get_pages(flags, num), whole
get_pages(flags, num) ==
    /\ phase = "run"
    /\ ~panicked
    /\ LET pool == PoolOf(flags)
           r == get_pages_locked(pool, num)
           ret == IF NumIsZero(num) \/ r.idx = None THEN None
                  ELSE get_pages_addr(pool, r.idx[1])
       IN  /\ used_map' = IF NumIsZero(num) \/ r.idx = None THEN used_map
                          ELSE [used_map EXCEPT ![pool] = r.map]
           /\ last' = [op |-> "get_pages", flags |-> flags, num |-> num,
                       ptr |-> None, ret |-> ret, of_held |-> FALSE,
                       changed |-> used_map' # used_map]
           /\ held' = IF ret = None THEN held
                      ELSE Some([pool |-> pool, ptr |-> ret[1], num |-> num,
                                 pre |-> used_map[pool]])
    /\ UNCHANGED <<phase, MEMORY_INFO, base, avail_pages, panicked,
                   pc, call, cret, scan_in, scan_out, init_locals, heap_vars>>
    /\ UNCHANGED aux_vars

\* free_pages returning when the page is in neither pool
NoPoolReturns == [panic |-> FALSE, maps |-> used_map]
\* else { unreachable!() }: the page is in neither pool
NoPoolOutcome == [panic |-> TRUE, maps |-> used_map]

\* the page index taken without the pool's base
free_page_idx_abs(ptr, pool) == page_num(ptr)
\* let page_idx = page_addr.page_num() - pool.base.lock().page_num();
free_page_idx(ptr, pool) == page_num(ptr) - page_num(base[pool])

\* the freed run filled with true
FreeFillTrue == TRUE
\* .fill(false)
FreeFillValue == FALSE

\* The outcome of PageAllocator::free_pages(ptr, num): whether it panics, and
\* the used maps it leaves.
free_pages_result(ptr, num) ==
    IF page_offset(ptr) # 0 THEN [panic |-> TRUE, maps |-> used_map]
    ELSE IF num = 0 THEN [panic |-> FALSE, maps |-> used_map]
    ELSE IF used_map["kernel"] = None THEN [panic |-> TRUE, maps |-> used_map]
    ELSE IF ~contains_page("kernel", ptr) /\ used_map["user"] = None
         THEN [panic |-> TRUE, maps |-> used_map]
    ELSE IF ~contains_page("kernel", ptr) /\ ~contains_page("user", ptr)
         THEN NoPoolOutcome
    ELSE LET pool == IF contains_page("kernel", ptr) THEN "kernel" ELSE "user"
             page_idx == free_page_idx(ptr, pool)
             bits == used_map[pool][1]
         IN  IF SliceGet(bits, page_idx, page_idx + num) = None
             THEN [panic |-> TRUE, maps |-> used_map]
             ELSE [panic |-> FALSE,
                   maps |-> [used_map EXCEPT ![pool] =
                                Some(Fill(bits, page_idx, page_idx + num, FreeFillValue))]]

\* PageAllocator::free_pages(ptr, num), whole
free_pages(ptr, num) ==
    /\ phase = "run"
    /\ ~panicked
    /\ LET r == free_pages_result(ptr, num)
       IN  /\ used_map' = r.maps
           /\ panicked' = r.panic
    /\ last' = [op |-> "free_pages", flags |-> {}, num |-> num, ptr |-> Some(ptr),
                ret |-> None,
                of_held |-> held # None /\ held[1].ptr = ptr /\ held[1].num = num,
                changed |-> used_map' # used_map]
    /\ held' = None
    /\ UNCHANGED <<phase, MEMORY_INFO, base, avail_pages,
                   pc, call, cret, scan_in, scan_out, init_locals, heap_vars>>
    /\ UNCHANGED aux_vars

\* The page counts callers pass: none, every run a used map can hold, one more.
Nums == 0..(WordBits + 1)
\* The page counts callers free.
FreeNums == 0..WordBits

\* The addresses callers free: the pages either used map covers, the page
\* below each pool's base (its bitmap page), the page above the user pool's
\* used map, and an address inside a page.
Ptrs ==
    UNION { { base[p] + i * PAGE_SIZE : i \in 0..(WordBits - 1) } : p \in Pools }
    \cup { base[p] - PAGE_SIZE : p \in Pools }
    \cup { base["user"] + WordBits * PAGE_SIZE }
    \cup { base["kernel"] + 8 }

-----------------------------------------------------------------------------
(* kernel/src/mem/alloc.rs: the heap allocator *)

\* Live allocations a run keeps at once.
MaxLive == 2

\* core::mem::size_of::<Arena>() on the x86_64 target: a u32, a reference and
\* a usize, each in an 8-byte slot.
SIZE_OF_ARENA == 24
\* Arena::MAGIC, 0x9a548eed; only compared for equality.
Arena_MAGIC == "9a548eed"

RECURSIVE ilog2(_)
ilog2(n) == IF n < 2 THEN 0 ELSE 1 + ilog2(n \div 2)

NUM_DESCS == ilog2(PAGE_SIZE \div 32)
\* ALLOC_DESCS[i] of the source is descriptor i + 1 here.
DescIds == 1..NUM_DESCS

\* let mut block_size = 16;
FIRST_BLOCK_SIZE == 16

BlockList_new == [head |-> None, tail |-> None]
Descriptor_new == [block_size |-> 0, blocks_per_arena |-> 0, free_list |-> BlockList_new]

\* blocks counted over the whole page, header included
BlocksPerArenaNoHeader(block_size) == PAGE_SIZE \div block_size
\* (PAGE_SIZE as usize - size_of::<Arena>()) / block_size, line 36
BlocksPerArena(block_size) == (PAGE_SIZE - SIZE_OF_ARENA) \div block_size

\* block sizes that grow by the first size at each step
NextBlockSizeLinear(block_size) == block_size + FIRST_BLOCK_SIZE
\* block_size *= 2, line 38
NextBlockSize(block_size) == block_size * 2

RECURSIVE SimpleAlloc_init_loop(_, _, _)
\* for desc in self.descs { ...; block_size *= 2; }
SimpleAlloc_init_loop(ds, d, block_size) ==
    IF d > NUM_DESCS THEN ds
    ELSE SimpleAlloc_init_loop(
             [ds EXCEPT ![d].block_size = block_size,
                        ![d].blocks_per_arena = BlocksPerArena(block_size)],
             d + 1, NextBlockSize(block_size))

SimpleAlloc_init(ds) == SimpleAlloc_init_loop(ds, 1, FIRST_BLOCK_SIZE)

\* Memory written through a pointer: mem with the value v at address a.
Store(mem, a, v) == [x \in (DOMAIN mem) \cup {a} |-> IF x = a THEN v ELSE mem[x]]
\* Memory at a overwritten with bytes that are no pointer the list wrote.
Unwritten(mem, a) == [x \in (DOMAIN mem) \ {a} |-> mem[x]]

\* A non-null address that is no block: what a next field nobody wrote may hold.
JunkAddr == PAGE_SIZE - 1
JunkNexts == {None, Some(JunkAddr)}

\* block.next, with junk standing for the content of a field never written
NextOf(mem, b, junk) == IF b \in DOMAIN mem THEN mem[b] ELSE junk

\* BlockList::is_empty
is_empty(list) == list.head = list.tail

\* BlockList::push_back: the list and the memory it leaves
push_back(list, mem, block) ==
    IF list.head = None /\ list.tail = None
    THEN [list |-> [head |-> Some(block), tail |-> Some(block)], mem |-> mem]
    ELSE [list |-> [list EXCEPT !.tail = Some(block)],
          mem |-> IF list.tail = None THEN mem
                  ELSE Store(mem, list.tail[1], Some(block))]

\* BlockList::push_front
push_front(list, mem, block) ==
    IF list.head = None /\ list.tail = None
    THEN [list |-> [head |-> Some(block), tail |-> Some(block)], mem |-> mem]
    ELSE [list |-> [list EXCEPT !.head = Some(block)],
          mem |-> Store(mem, block, list.head)]

\* BlockList::pop_front: the block handed out and the list left
pop_front(list, mem, junk) ==
    IF list.head = None THEN [block |-> None, list |-> list]
    ELSE LET nh == NextOf(mem, list.head[1], junk)
         IN  [block |-> list.head,
              list |-> [head |-> nh, tail |-> IF nh = None THEN None ELSE list.tail]]

\* More steps than a walk over distinct blocks can take.
MaxWalk == PAGE_SIZE

\* The steps after which a walk has been somewhere twice and so goes round for
\* ever: the written addresses, one unwritten block and the junk address.
WalkFuel(mem) == Cardinality(DOMAIN mem) + 2

RECURSIVE ListWalk(_, _, _)
\* The blocks met following next pointers from v, in order; it stops at a next
\* field nobody wrote.
ListWalk(mem, v, fuel) ==
    IF v = None \/ fuel = 0 THEN <<>>
    ELSE <<v[1]>> \o ListWalk(mem, IF v[1] \in DOMAIN mem THEN mem[v[1]] ELSE None, fuel - 1)

RECURSIVE RemoveWalk(_, _, _, _, _, _)
\* while v != block { let Some(next) = v.next else { return }; prev_v = v; v = next; }
RemoveWalk(mem, prev_v, v, block, junk, fuel) ==
    IF v = block THEN [found |-> TRUE, hang |-> FALSE, prev_v |-> prev_v, v |-> v]
    ELSE LET n == NextOf(mem, v, junk)
         IN  IF n = None THEN [found |-> FALSE, hang |-> FALSE, prev_v |-> prev_v, v |-> v]
             ELSE IF fuel = 0 THEN [found |-> FALSE, hang |-> TRUE, prev_v |-> prev_v, v |-> v]
             ELSE RemoveWalk(mem, v, n[1], block, junk, fuel - 1)

\* BlockList::remove; hang when the walk runs round a cycle for ever
remove(list, mem, block, junk) ==
    IF list.head = None THEN [hang |-> FALSE, list |-> list, mem |-> mem]
    ELSE LET head == list.head[1]
             w == RemoveWalk(mem, head, head, block, junk, WalkFuel(mem))
         IN  IF ~w.found THEN [hang |-> w.hang, list |-> list, mem |-> mem]
             ELSE IF w.v = head
                  THEN IF list.head = list.tail
                       THEN [hang |-> FALSE, list |-> BlockList_new, mem |-> mem]
                       ELSE [hang |-> FALSE,
                             list |-> [list EXCEPT !.head = NextOf(mem, w.v, junk)],
                             mem |-> mem]
                  ELSE [hang |-> FALSE, list |-> list,
                        mem |-> Store(mem, w.prev_v, NextOf(mem, w.v, junk))]

\* VirtualAddress::page_round_down
page_round_down(a) == a - page_offset(a)

\* The header read at a page: a page no allocate stamped holds no magic.
ArenaAt(ars, a) ==
    IF a \in DOMAIN ars THEN ars[a]
    ELSE [magic |-> "unwritten", desc |-> None, num_free |-> 0]

\* The heap and the page allocator's used maps, as a call works on them.
HeapState ==
    [descs |-> descs, arenas |-> arenas, mem |-> block_next,
     locks |-> desc_lock, maps |-> used_map]

\* The guard of descriptor d is dropped.
Unlock(h, d) == [h EXCEPT !.locks[d] = None]

\* blocks laid out behind a header taken without its padding
BlockAddrPacked(a, idx, block_size) == a + 20 + idx * block_size
\* (self as *const Arena).add(1).cast::<u8>().add(idx * block_size), line 166
BlockAddr(a, idx, block_size) == a + SIZE_OF_ARENA + idx * block_size

\* Arena::to_block(idx) for the arena at a.  Line 160 locks the arena's
\* descriptor: a spin lock that is taken, by this call or another, never lets
\* the caller through ("spin").
Arena_to_block(h, a, idx) ==
    LET hdr == ArenaAt(h.arenas, a) IN
    IF hdr.desc # None /\ h.locks[hdr.desc[1]] # None
    THEN [status |-> "spin", block |-> 0]
    ELSE LET blocks_per_arena == IF hdr.desc = None THEN 0
                                 ELSE h.descs[hdr.desc[1]].blocks_per_arena
             block_size == IF hdr.desc = None THEN 0
                           ELSE h.descs[hdr.desc[1]].block_size
         IN  IF hdr.magic # Arena_MAGIC \/ ~(idx < blocks_per_arena)
             THEN [status |-> "panic", block |-> 0]
             ELSE [status |-> "ok", block |-> BlockAddr(a, idx, block_size)]

\* a header whose magic is taken on trust
MagicUnchecked(magic) == TRUE
\* assert_eq!(a.magic, Arena::MAGIC)
MagicOk(magic) == magic = Arena_MAGIC

\* Block::to_arena for the block at addr: the three assertions of lines 263-271
\* in their order (failed names the one that fired); the second one locks the
\* arena's descriptor.
Block_to_arena(h, addr) ==
    LET arena == page_round_down(addr)
        a == ArenaAt(h.arenas, arena)
        out(status, failed) == [status |-> status, failed |-> failed, arena |-> arena]
    IN  IF ~MagicOk(a.magic) THEN out("panic", "magic")
        ELSE IF a.desc # None
             THEN IF page_offset(addr) < SIZE_OF_ARENA
                  THEN out("panic", "align")
                  ELSE IF h.locks[a.desc[1]] # None
                  THEN out("spin", "none")
                  ELSE IF h.descs[a.desc[1]].block_size = 0
                  THEN out("panic", "align")
                  ELSE IF (page_offset(addr) - SIZE_OF_ARENA)
                              % h.descs[a.desc[1]].block_size # 0
                  THEN out("panic", "align")
                  ELSE out("ok", "none")
             ELSE IF page_offset(addr) = SIZE_OF_ARENA
                  THEN out("ok", "none")
                  ELSE out("panic", "offset")

\* PageAllocator::get_pages(flags, num) as the heap calls it: the page and the
\* used maps it leaves.
get_pages_call(flags, num) ==
    LET pool == PoolOf(flags)
        r == get_pages_locked(pool, num)
        hit == ~NumIsZero(num) /\ r.idx # None
    IN  [ret |-> IF hit THEN get_pages_addr(pool, r.idx[1]) ELSE None,
         maps |-> IF hit THEN [used_map EXCEPT ![pool] = r.map] ELSE used_map]

\* a failed page request that ends in a panic
NullReturnPanics(h, reqs) ==
    [status |-> "panic", ret |-> None, arena |-> None, reqs |-> reqs, h |-> h]
\* return ptr::null_mut() of lines 55 and 84: get_pages gave no page
NullReturn(h, reqs) ==
    [status |-> "ret", ret |-> None, arena |-> None, reqs |-> reqs, h |-> h]

\* a descriptor serving sizes below its block size only
DescFitsStrict(block_size, size) == block_size > size
\* d.lock().block_size >= layout.size()
DescFits(block_size, size) == block_size >= size

RECURSIVE find_desc(_, _)
\* self.descs.iter().find(...), from descriptor d on
find_desc(d, size) ==
    IF d > NUM_DESCS THEN None
    ELSE IF DescFits(descs[d].block_size, size) THEN Some(d)
    ELSE find_desc(d + 1, size)

RECURSIVE CarveLoop(_, _, _, _)
\* for i in 0..desc.blocks_per_arena { to_block(i); push_back }, from i on
CarveLoop(h, a, d, i) ==
    IF i >= h.descs[d].blocks_per_arena THEN [status |-> "ok", h |-> h]
    ELSE LET b == Arena_to_block(h, a, i) IN
         IF b.status # "ok" THEN [status |-> b.status, h |-> h]
         ELSE LET p == push_back(h.descs[d].free_list, h.mem, b.block)
              IN  CarveLoop([h EXCEPT !.descs[d].free_list = p.list, !.mem = p.mem],
                            a, d, i + 1)

\* Lines 73-78, with descriptor d locked: pop a block, count it out of its arena.
alloc_pop(h, d, junk, arena, reqs) ==
    LET p == pop_front(h.descs[d].free_list, h.mem, junk)
        h1 == [h EXCEPT !.descs[d].free_list = p.list]
    IN  IF p.block = None
        THEN [status |-> "ret", ret |-> None, arena |-> arena, reqs |-> reqs,
              h |-> Unlock(h1, d)]
        ELSE LET ta == Block_to_arena(h1, p.block[1]) IN
             IF ta.status # "ok"
             THEN [status |-> ta.status, ret |-> None, arena |-> arena, reqs |-> reqs,
                   h |-> h1]
             ELSE IF h1.arenas[ta.arena].num_free = 0
             THEN [status |-> "panic", ret |-> None, arena |-> arena, reqs |-> reqs,
                   h |-> h1]
             ELSE [status |-> "ret", ret |-> p.block, arena |-> arena, reqs |-> reqs,
                   h |-> Unlock([h1 EXCEPT !.arenas[ta.arena].num_free = @ - 1], d)]

\* Lines 52-78: thread t serves the request from descriptor d.
alloc_small(d, t, junk) ==
    IF desc_lock[d] # None
    THEN [status |-> "spin", ret |-> None, arena |-> None, reqs |-> <<>>, h |-> HeapState]
    ELSE LET h0 == [HeapState EXCEPT !.locks[d] = Some(t)] IN
         IF is_empty(h0.descs[d].free_list)
         THEN LET g == get_pages_call({}, 1) IN
              IF g.ret = None
              THEN NullReturn(Unlock([h0 EXCEPT !.maps = g.maps], d), <<1>>)
              ELSE LET a == g.ret[1]
                       h1 == [h0 EXCEPT
                                !.maps = g.maps,
                                !.arenas = Store(@, a,
                                    [magic |-> Arena_MAGIC, desc |-> Some(d),
                                     num_free |-> h0.descs[d].blocks_per_arena])]
                       c == CarveLoop(h1, a, d, 0)
                   IN  IF c.status # "ok"
                       THEN [status |-> c.status, ret |-> None, arena |-> Some(a),
                             reqs |-> <<1>>, h |-> c.h]
                       ELSE alloc_pop(c.h, d, junk, Some(a), <<1>>)
         ELSE alloc_pop(h0, d, junk, None, <<>>)

\* the pages of a big block counted without its header
BigBlockPagesNoHeader(size) == CeilDiv(size, PAGE_SIZE)
\* (layout.size() + size_of::<Arena>()).div_ceil(PAGE_SIZE)
BigBlockPages(size) == CeilDiv(size + SIZE_OF_ARENA, PAGE_SIZE)

\* arena.cast().as_ptr(): the pointer handed out for the big block at arena a
BigBlockPtr(a) == a

\* Lines 79-94: the request fits no descriptor.
alloc_big(size) ==
    LET num_pages == BigBlockPages(size)
        g == get_pages_call({}, num_pages)
    IN  IF g.ret = None
        THEN NullReturn([HeapState EXCEPT !.maps = g.maps], <<num_pages>>)
        ELSE [status |-> "ret", ret |-> Some(BigBlockPtr(g.ret[1])),
              arena |-> g.ret, reqs |-> <<num_pages>>,
              h |-> [HeapState EXCEPT
                        !.maps = g.maps,
                        !.arenas = Store(@, g.ret[1],
                            [magic |-> Arena_MAGIC, desc |-> None,
                             num_free |-> num_pages])]]

RECURSIVE ReclaimLoop(_, _, _, _, _)
\* for i in 0..desc.blocks_per_arena { to_block(i); remove }, from i on
ReclaimLoop(h, a, d, i, junk) ==
    IF i >= h.descs[d].blocks_per_arena THEN [status |-> "ok", h |-> h]
    ELSE LET b == Arena_to_block(h, a, i) IN
         IF b.status # "ok" THEN [status |-> b.status, h |-> h]
         ELSE LET r == remove(h.descs[d].free_list, h.mem, b.block, junk) IN
              IF r.hang THEN [status |-> "spin", h |-> h]
              ELSE ReclaimLoop([h EXCEPT !.descs[d].free_list = r.list, !.mem = r.mem],
                               a, d, i + 1, junk)

\* SimpleAlloc::dealloc(ptr) by thread t, as far as it gets.
dealloc_run(ptr, t, junk) ==
    LET ta == Block_to_arena(HeapState, ptr) IN
    IF ta.status # "ok"
    THEN [failed |-> ta.failed, status |-> ta.status, freed |-> None, h |-> HeapState]
    ELSE LET hdr == arenas[ta.arena] IN
         IF hdr.desc # None
         THEN LET d == hdr.desc[1] IN
              IF desc_lock[d] # None
              THEN [failed |-> "none", status |-> "spin", freed |-> None, h |-> HeapState]
              ELSE LET h0 == [HeapState EXCEPT !.locks[d] = Some(t)]
                       \* write_bytes(block, 0xCC, block_size)
                       p == push_front(h0.descs[d].free_list, Unwritten(h0.mem, ptr), ptr)
                       num_free == hdr.num_free + 1
                       h1 == [h0 EXCEPT !.descs[d].free_list = p.list,
                                        !.mem = p.mem,
                                        !.arenas[ta.arena].num_free = num_free]
                   IN  IF num_free >= h1.descs[d].blocks_per_arena
                       THEN LET r == ReclaimLoop(h1, ta.arena, d, 0, junk) IN
                            IF r.status # "ok"
                            THEN [failed |-> "none", status |-> r.status, freed |-> None, h |-> r.h]
                            ELSE [failed |-> "none", status |-> "ret", freed |-> None, h |-> Unlock(r.h, d)]
                       ELSE [failed |-> "none", status |-> "ret", freed |-> None, h |-> Unlock(h1, d)]
         ELSE LET f == free_pages_result(ta.arena, hdr.num_free)
              IN  [failed |-> "none", status |-> IF f.panic THEN "panic" ELSE "ret",
                   freed |-> Some([ptr |-> ta.arena, num |-> hdr.num_free]),
                   h |-> [HeapState EXCEPT !.maps = f.maps]]

NoHeapCall ==
    [op |-> "none", size |-> 0, ptr |-> None, status |-> "ret", ret |-> None,
     path |-> "none", desc |-> None, reqs |-> <<>>, arena |-> None,
     pre |-> None, freed |-> None, failed |-> "none"]

\* init_heap(), called by kernel_main once the page allocator is up
init_heap ==
    /\ phase = "run"
    /\ ~panicked
    /\ ~heap_init
    /\ heap_init' = TRUE
    /\ descs' = SimpleAlloc_init(descs)
    /\ UNCHANGED <<phase, MEMORY_INFO, used_map, base, avail_pages, panicked, last, held,
                   pc, call, cret, scan_in, scan_out, init_locals,
                   desc_lock, arenas, block_next, hpc, hlast, live>>
    /\ UNCHANGED aux_vars

\* SimpleAlloc::alloc(layout) by thread t with layout.size() = size, run until
\* it returns, panics or spins on a lock
alloc(t, size) ==
    /\ heap_init
    /\ ~panicked
    /\ hpc[t] = "idle"
    /\ Len(live) < MaxLive
    /\ \E junk \in JunkNexts :
          \E f \in {find_desc(1, size)} :
          \E r \in {IF f # None THEN alloc_small(f[1], t, junk) ELSE alloc_big(size)} :
              /\ descs' = r.h.descs
              /\ arenas' = r.h.arenas
              /\ block_next' = r.h.mem
              /\ desc_lock' = r.h.locks
              /\ used_map' = r.h.maps
              /\ hpc' = [hpc EXCEPT ![t] = IF r.status = "spin" THEN "spin" ELSE "idle"]
              /\ panicked' = (r.status = "panic")
              /\ hlast' = [op |-> "alloc", size |-> size, ptr |-> None,
                           status |-> r.status, ret |-> r.ret,
                           path |-> IF f # None THEN "small" ELSE "big",
                           desc |-> f, reqs |-> r.reqs, arena |-> r.arena,
                           pre |-> Some(used_map), freed |-> None,
                           failed |-> "none"]
              /\ live' = IF r.status = "ret" /\ r.ret # None
                         THEN Append(live, [ptr |-> r.ret[1], size |-> size,
                                            big |-> f = None, pre |-> used_map])
                         ELSE live
    /\ UNCHANGED <<heap_init, phase, MEMORY_INFO, base, avail_pages, last, held,
                   pc, call, cret, scan_in, scan_out, init_locals>>
    /\ UNCHANGED aux_vars

\* SimpleAlloc::dealloc(ptr, layout) by thread t, for the i-th live allocation
dealloc(t, i) ==
    /\ heap_init
    /\ ~panicked
    /\ hpc[t] = "idle"
    /\ i \in 1..Len(live)
    /\ \E junk \in JunkNexts :
          \E r \in {dealloc_run(live[i].ptr, t, junk)} :
              /\ descs' = r.h.descs
              /\ arenas' = r.h.arenas
              /\ block_next' = r.h.mem
              /\ desc_lock' = r.h.locks
              /\ used_map' = r.h.maps
              /\ hpc' = [hpc EXCEPT ![t] = IF r.status = "spin" THEN "spin" ELSE "idle"]
              /\ panicked' = (r.status = "panic")
              /\ hlast' = [op |-> "dealloc", size |-> live[i].size,
                           ptr |-> Some(live[i].ptr), status |-> r.status, ret |-> None,
                           path |-> IF live[i].big THEN "big" ELSE "small",
                           desc |-> None, reqs |-> <<>>, arena |-> None,
                           pre |-> Some(live[i].pre), freed |-> r.freed,
                           failed |-> r.failed]
    /\ live' = [k \in 1..(Len(live) - 1) |-> IF k < i THEN live[k] ELSE live[k + 1]]
    /\ UNCHANGED <<heap_init, phase, MEMORY_INFO, base, avail_pages, last, held,
                   pc, call, cret, scan_in, scan_out, init_locals>>
    /\ UNCHANGED aux_vars

\* What a caller may leave in the first bytes of a block it owns.
HeaderWrites ==
    {[magic |-> m, desc |-> None, num_free |-> n] :
        m \in {Arena_MAGIC, "cccccccc"}, n \in {1, WordBits}}

\* The owner of the i-th live allocation writes its block.  A big block starts
\* at its arena (line 93 hands out the arena's own address), so the bytes land
\* on the arena header.
caller_write(t, i, hdr) ==
    /\ heap_init
    /\ ~panicked
    /\ hpc[t] = "idle"
    /\ i \in 1..Len(live)
    /\ live[i].big
    /\ arenas' = Store(arenas, page_round_down(live[i].ptr), hdr)
    /\ UNCHANGED <<phase, MEMORY_INFO, used_map, base, avail_pages, panicked, last, held,
                   pc, call, cret, scan_in, scan_out, init_locals,
                   heap_init, descs, desc_lock, block_next, hpc, hlast, live>>
    /\ UNCHANGED aux_vars

-----------------------------------------------------------------------------
(* The kernel's boot sequence followed by page-allocator calls, one at a time *)

Threads == {1, 2}

\* The heap before init_heap: ALLOC_DESCS as constructed, nothing handed out.
HeapInit ==
    /\ heap_init = FALSE
    /\ descs = [d \in DescIds |-> Descriptor_new]
    /\ desc_lock = [d \in DescIds |-> None]
    /\ arenas = <<>>
    /\ block_next = <<>>
    /\ hpc = [t \in Threads |-> "idle"]
    /\ hlast = NoHeapCall
    /\ live = <<>>

\* The interrupt indexes of the model: the timer's and the one kernel_main raises.
IntIndexes == {32, 48}

NoInfo == [base_address |-> 0, size |-> 0, base_virtual_address |-> 0]

\* a thread outside MemoryInfo::init and MemoryInfo::get
MiIdle == [at |-> "idle", k |-> 0, for |-> "none"]

AuxInit ==
    /\ members = {}
    /\ boot_arg = None
    /\ mi_lock = None
    /\ mi_pc = [t \in Threads |-> MiIdle]
    /\ mi_local = [t \in Threads |-> NoInfo]
    /\ mi_seen = [t \in Threads |-> None]
    /\ INITIALIZED = FALSE
    /\ HANDLERS = [i \in IntIndexes |-> None]
    /\ int_enabled = FALSE
    /\ int_pc = [t \in Threads |-> "idle"]
    /\ table_setups = 0
    /\ map_lock = [p \in {"kernel", "user"} |-> None]
    /\ irq = None

NoScan == [bits |-> <<>>, start |-> 0, num |-> 0, val |-> FALSE]

Init ==
    /\ phase = "boot"
    /\ MEMORY_INFO = [base_address |-> 0, size |-> 0, base_virtual_address |-> 0]
    /\ used_map = [p \in Pools |-> None]
    /\ base = [p \in Pools |-> 0]
    /\ avail_pages = [p \in Pools |-> 0]
    /\ panicked = FALSE
    /\ last = NoCall
    /\ held = None
    /\ pc = [t \in Threads |-> "idle"]
    /\ call = [t \in Threads |-> None]
    /\ cret = [t \in Threads |-> None]
    /\ scan_in = NoScan
    /\ scan_out = [done |-> FALSE, ret |-> None]
    /\ init_locals = None
    /\ HeapInit
    /\ AuxInit
    /\ fn_in = None
    /\ fn_out = None

Boot ==
    \/ \E b \in BootInfos : MemoryInfo_init(b)
    \/ \E l \in UserPageLimits, kw \in BitWords, uw \in BitWords : PageAllocator_init(l, kw, uw)

-----------------------------------------------------------------------------
(* PageAllocator::init on its own, over memory sizes and user page limits *)

\* Pages of a pool whose bitmap no longer fits the pages Pool::init reserves.
BigPoolPages == PAGE_SIZE * 8 + 2

\* Sizes of the first usable region: below the 1 MiB offset, exactly at it,
\* one page, a few pages and a few bytes, several bitmap words' worth, and a
\* machine of some 257 MiB.
InitSizes ==
    { MEM_START - PAGE_SIZE,
      MEM_START,
      MEM_START + PAGE_SIZE,
      MEM_START + (WordBits + 1) * PAGE_SIZE + 100,
      UsableSize,
      MEM_START + 2 * BigPoolPages * PAGE_SIZE }

InitBootInfos == { BootInfoSized(512 * PAGE_SIZE, sz, Some(4096 * PAGE_SIZE)) : sz \in InitSizes }

InitUserPageLimits == {0, 1, WordBits, USER_PAGE_LIMIT_MAX}

NextInit ==
    \/ \E b \in InitBootInfos : MemoryInfo_init(b)
    \/ \E l \in InitUserPageLimits, kw \in BitWords, uw \in BitWords : PageAllocator_init(l, kw, uw)

SpecInit == Init /\ [][NextInit]_vars

Next ==
    \/ Boot
    \/ \E f \in Flags, n \in Nums : get_pages(f, n)
    \/ \E p \in Ptrs, n \in FreeNums : free_pages(p, n)

Spec == Init /\ [][Next]_vars

-----------------------------------------------------------------------------
(* Two threads inside the page allocator.  A used map is only touched under   *)
(* its spin lock, so the block that holds the lock (lines 60-65) is one step; *)
(* a thread then computes its address and returns in a step of its own.       *)

\* get_pages up to the lock: line 51-58
c_get_pages_enter(t, flags, num) ==
    /\ phase = "run"
    /\ ~panicked
    /\ pc[t] = "idle"
    /\ cret' = [cret EXCEPT ![t] = None]
    /\ IF NumIsZero(num)
       THEN UNCHANGED <<pc, call>>
       ELSE /\ pc' = [pc EXCEPT ![t] = "gp_lock"]
            /\ call' = [call EXCEPT ![t] = Some([flags |-> flags, num |-> num, idx |-> None])]
    /\ UNCHANGED <<phase, MEMORY_INFO, used_map, base, avail_pages, panicked,
                   last, held, scan_in, scan_out, init_locals, heap_vars>>
    /\ UNCHANGED aux_vars

\* lines 60-65: lock, scan_and_flip, unlock
c_get_pages_scan(t) ==
    /\ ~panicked
    /\ pc[t] = "gp_lock"
    /\ LET c == call[t][1]
           pool == PoolOf(c.flags)
           r == get_pages_locked(pool, c.num)
       IN  IF r.idx = None
           THEN /\ pc' = [pc EXCEPT ![t] = "idle"]
                /\ call' = [call EXCEPT ![t] = None]
                /\ UNCHANGED used_map
           ELSE /\ pc' = [pc EXCEPT ![t] = "gp_addr"]
                /\ call' = [call EXCEPT ![t] = Some([c EXCEPT !.idx = r.idx])]
                /\ used_map' = [used_map EXCEPT ![pool] = r.map]
    /\ UNCHANGED <<phase, MEMORY_INFO, base, avail_pages, panicked,
                   last, held, cret, scan_in, scan_out, init_locals, heap_vars>>
    /\ UNCHANGED aux_vars

\* lines 67-76: the address, the zero fill, the return
c_get_pages_return(t) ==
    /\ ~panicked
    /\ pc[t] = "gp_addr"
    /\ LET c == call[t][1]
           pool == PoolOf(c.flags)
           ret == get_pages_addr(pool, c.idx[1])
       IN  cret' = [cret EXCEPT ![t] =
                       IF ret = None THEN None
                       ELSE Some([pool |-> pool, ptr |-> ret[1], num |-> c.num])]
    /\ pc' = [pc EXCEPT ![t] = "idle"]
    /\ call' = [call EXCEPT ![t] = None]
    /\ UNCHANGED <<phase, MEMORY_INFO, used_map, base, avail_pages, panicked,
                   last, held, scan_in, scan_out, init_locals, heap_vars>>
    /\ UNCHANGED aux_vars

\* A thread frees the pages its get_pages returned.  What any thread was
\* handed before a free_pages is forgotten.
c_free_pages(t) ==
    /\ ~panicked
    /\ pc[t] = "idle"
    /\ cret[t] # None
    /\ LET r == free_pages_result(cret[t][1].ptr, cret[t][1].num)
       IN  /\ used_map' = r.maps
           /\ panicked' = r.panic
    /\ cret' = [u \in Threads |-> None]
    /\ UNCHANGED <<phase, MEMORY_INFO, base, avail_pages, last, held,
                   pc, call, scan_in, scan_out, init_locals, heap_vars>>
    /\ UNCHANGED aux_vars

NextConc ==
    \/ Boot
    \/ \E t \in Threads, f \in Flags, n \in Nums : c_get_pages_enter(t, f, n)
    \/ \E t \in Threads : c_get_pages_scan(t)
    \/ \E t \in Threads : c_get_pages_return(t)
    \/ \E t \in Threads : c_free_pages(t)

SpecConc == Init /\ [][NextConc]_vars

-----------------------------------------------------------------------------
(* BitSliceScan::scan on its own, over every slice up to ScanLen bits *)

BitSlices == UNION { [1..n -> BOOLEAN] : n \in 0..ScanLen }

InitScan ==
    /\ phase = "boot"
    /\ MEMORY_INFO = [base_address |-> 0, size |-> 0, base_virtual_address |-> 0]
    /\ used_map = [p \in Pools |-> None]
    /\ base = [p \in Pools |-> 0]
    /\ avail_pages = [p \in Pools |-> 0]
    /\ panicked = FALSE
    /\ last = NoCall
    /\ held = None
    /\ pc = [t \in Threads |-> "idle"]
    /\ call = [t \in Threads |-> None]
    /\ cret = [t \in Threads |-> None]
    /\ scan_in \in [bits : BitSlices, start : {0, 1}, num : 0..(ScanLen + 1), val : BOOLEAN]
    /\ scan_out = [done |-> FALSE, ret |-> None]
    /\ init_locals = None
    /\ HeapInit
    /\ AuxInit
    /\ fn_in = None
    /\ fn_out = None

scan_call ==
    /\ ~scan_out.done
    /\ scan_out' = [done |-> TRUE,
                    ret |-> scan(scan_in.bits, scan_in.start, scan_in.num, scan_in.val)]
    /\ UNCHANGED <<phase, MEMORY_INFO, used_map, base, avail_pages, panicked,
                   last, held, pc, call, cret, scan_in, init_locals, heap_vars>>
    /\ UNCHANGED aux_vars

NextScan == scan_call

SpecScan == InitScan /\ [][NextScan]_vars

-----------------------------------------------------------------------------
(* The boot sequence, init_heap, then heap calls by the kernel's one thread *)

\* Request sizes: within a size class, at its edges, past the largest class,
\* filling pages exactly, one byte more, and more pages than a used map holds.
AllocSizes ==
    {1, FIRST_BLOCK_SIZE, FIRST_BLOCK_SIZE + 1, 20, 1024, 1025,
     PAGE_SIZE - SIZE_OF_ARENA, PAGE_SIZE - SIZE_OF_ARENA + 1,
     WordBits * PAGE_SIZE}

HeapThread == 1

NextHeap ==
    \/ Boot
    \/ init_heap
    \/ \E size \in AllocSizes : alloc(HeapThread, size)
    \/ \E i \in 1..MaxLive : dealloc(HeapThread, i)

SpecHeap == Init /\ [][NextHeap]_vars

\* The same, with callers that write the blocks they were given.
NextHeapUse ==
    \/ NextHeap
    \/ \E i \in 1..MaxLive : \E hdr \in HeaderWrites : caller_write(HeapThread, i, hdr)

SpecHeapUse == Init /\ [][NextHeapUse]_vars

-----------------------------------------------------------------------------
(* The address conversions on their own, over memory infos and addresses *)

\* The records MemoryInfo::init leaves: a usable region at 0, at one page or at
\* 2 MiB, mapped with or without an offset.
AddrInfos ==
    {[base_address |-> b, size |-> UsableSize, base_virtual_address |-> o] :
        b \in {0, PAGE_SIZE, 512 * PAGE_SIZE}, o \in {0, 4096 * PAGE_SIZE}}

\* Addresses next to 0, to a page boundary and to the user/kernel split.
AddrOffsets == {0, 1, PAGE_SIZE - 1, PAGE_SIZE, 512 * PAGE_SIZE + 5}

AddrInputs(info) ==
    {[kind |-> "phys", val |-> a] : a \in AddrOffsets}
    \cup {[kind |-> "virt", val |-> info.base_virtual_address + PHYS_BASE + a] :
             a \in AddrOffsets}
    \cup {[kind |-> "virt", val |-> info.base_virtual_address + PHYS_BASE - a] :
             a \in AddrOffsets \ {0}}

InitAddr ==
    /\ phase = "mem"
    /\ MEMORY_INFO \in AddrInfos
    /\ used_map = [p \in Pools |-> None]
    /\ base = [p \in Pools |-> 0]
    /\ avail_pages = [p \in Pools |-> 0]
    /\ panicked = FALSE
    /\ last = NoCall
    /\ held = None
    /\ pc = [t \in Threads |-> "idle"]
    /\ call = [t \in Threads |-> None]
    /\ cret = [t \in Threads |-> None]
    /\ scan_in = NoScan
    /\ scan_out = [done |-> FALSE, ret |-> None]
    /\ init_locals = None
    /\ HeapInit
    /\ AuxInit
    /\ fn_in \in AddrInputs(MEMORY_INFO)
    /\ fn_out = <<>>

\* How many conversions are chained on one address.
MaxHops == 2

\* the address the next conversion starts from
AddrNow == IF fn_out = <<>> THEN fn_in ELSE fn_out[Len(fn_out)]

\* PhysicalAddress::to_kernel_virtual on the address at hand
to_kernel_virtual_call ==
    /\ ~panicked
    /\ Len(fn_out) < MaxHops
    /\ AddrNow.kind = "phys"
    /\ fn_out' = Append(fn_out, [kind |-> "virt", val |-> to_kernel_virtual(AddrNow.val)])
    /\ UNCHANGED <<phase, MEMORY_INFO, used_map, base, avail_pages, panicked, last, held,
                   pc, call, cret, scan_in, scan_out, init_locals, heap_vars,
                   members, irq_vars, boot_arg, mi_vars, int_vars, fn_in>>

\* VirtualAddress::to_kernel_physical on the address at hand
to_kernel_physical_call ==
    /\ ~panicked
    /\ Len(fn_out) < MaxHops
    /\ AddrNow.kind = "virt"
    /\ \E r \in {to_kernel_physical(AddrNow.val)} :
          /\ panicked' = r.panic
          /\ fn_out' = Append(fn_out, IF r.panic THEN [kind |-> "panic", val |-> 0]
                                      ELSE [kind |-> "phys", val |-> r.val])
    /\ UNCHANGED <<phase, MEMORY_INFO, used_map, base, avail_pages, last, held,
                   pc, call, cret, scan_in, scan_out, init_locals, heap_vars,
                   members, irq_vars, boot_arg, mi_vars, int_vars, fn_in>>

NextAddr == to_kernel_virtual_call \/ to_kernel_physical_call

SpecAddr == InitAddr /\ [][NextAddr]_vars

-----------------------------------------------------------------------------
(* Properties of the page allocator *)

\* The pages [a, a + n pages) and [b, b + m pages) share no page.
RangesDisjoint(a, n, b, m) == a + n * PAGE_SIZE <= b \/ b + m * PAGE_SIZE <= a

\* The pages a pool's used map covers, and the pool owning a page.
InPoolRange(pool, ptr) ==
    /\ used_map[pool] # None
    /\ base[pool] <= ptr
    /\ ptr < base[pool] + Len(used_map[pool][1]) * PAGE_SIZE
Owner(ptr) ==
    IF InPoolRange("kernel", ptr) THEN Some("kernel")
    ELSE IF InPoolRange("user", ptr) THEN Some("user")
    ELSE None

\* Bits [i, i + num) of the bitmap are all free.
RunFree(bits, i, num) == \A k \in (i + 1)..(i + num) : bits[k] = FALSE
\* The bitmap has some run of num free bits.
HasFreeRun(bits, num) == \E i \in 0..(Len(bits) - num) : RunFree(bits, i, num)

\* The step completes a get_pages call / a free_pages call.
GetPagesStep == last'.op = "get_pages"
FreePagesStep == last'.op = "free_pages"

\* C1: two get_pages calls against the same pool, concurrent or with no
\* free_pages between them, never return overlapping page ranges.
C1_NoOverlap ==
    \A t1, t2 \in Threads :
        (t1 # t2 /\ cret[t1] # None /\ cret[t2] # None
              /\ cret[t1][1].pool = cret[t2][1].pool)
        => RangesDisjoint(cret[t1][1].ptr, cret[t1][1].num,
                          cret[t2][1].ptr, cret[t2][1].num)

\* C2: when get_pages(flags, count) succeeds with count > 0, every bit of the
\* returned run is marked used when the call returns and no other bit changes.
C2_MarksRunUsed ==
    [][ (GetPagesStep /\ last'.ret # None /\ last'.num > 0) =>
          LET pool == PoolOf(last'.flags)
              idx == (last'.ret[1] - base[pool]) \div PAGE_SIZE
              old == used_map[pool][1]
              new == used_map'[pool][1]
          IN  /\ \A k \in 1..Len(new) :
                    IF idx < k /\ k <= idx + last'.num THEN new[k] = TRUE
                    ELSE new[k] = old[k]
              /\ \A q \in Pools \ {pool} : used_map'[q] = used_map[q] ]_vars

\* The smallest index of a run of num free bits, if there is one.
LeftmostFit(bits, num) ==
    IF HasFreeRun(bits, num)
    THEN Some(CHOOSE i \in 0..(Len(bits) - num) :
                 /\ RunFree(bits, i, num)
                 /\ \A j \in 0..(i - 1) : ~RunFree(bits, j, num))
    ELSE None

\* C3: scan(0, count, free) returns the smallest index of a run of count free
\* bits, and none only when there is no such run.
C3_LeftmostFirstFit ==
    (scan_out.done /\ scan_in.start = 0 /\ scan_in.val = FALSE)
    => scan_out.ret = LeftmostFit(scan_in.bits, scan_in.num)

\* C4: once get_pages(flags, N) has taken all N allocatable pages of a pool, a
\* get_pages on that pool for N pages or for 1 page returns no allocation until
\* pages are freed.
C4_WholePoolOnce ==
    [][ (/\ held # None
         /\ held[1].num = avail_pages[held[1].pool]
         /\ GetPagesStep
         /\ PoolOf(last'.flags) = held[1].pool
         /\ last'.num \in {1, held[1].num})
        => last'.ret = None ]_vars

C6_ExhaustedReturnsNone ==
    [][ (/\ GetPagesStep
         /\ last'.num > 0
         /\ ~HasFreeRun(used_map[PoolOf(last'.flags)][1], last'.num))
        => (last'.ret = None /\ ~panicked' /\ used_map' = used_map) ]_vars

C6_Witness ==
    /\ last.op = "get_pages" /\ last.num > 0 /\ last.num <= WordBits
    /\ last.ret = None
    /\ ~HasFreeRun(used_map[PoolOf(last.flags)][1], last.num)
    /\ ~panicked

\* C7: get_pages(flags, 0) returns no allocation for any flags and changes no
\* bitmap bit of either pool.
C7_ZeroCount ==
    [][ (GetPagesStep /\ last'.num = 0)
        => (last'.ret = None /\ used_map' = used_map /\ ~panicked') ]_vars

C7_Witness ==
    /\ last.op = "get_pages" /\ last.num = 0 /\ last.ret = None
    /\ last.flags = {"Zero", "User"}
    /\ ~panicked

\* C8: an address get_pages returns is page-aligned, and the count pages from
\* it lie inside the allocatable pages of the pool the User flag selects.
C8_InsidePool ==
    (last.op = "get_pages" /\ last.ret # None) =>
        LET pool == PoolOf(last.flags) IN
        /\ page_offset(last.ret[1]) = 0
        /\ base[pool] <= last.ret[1]
        /\ last.ret[1] + last.num * PAGE_SIZE
              <= base[pool] + avail_pages[pool] * PAGE_SIZE

\* The bitmap with bits [idx, idx + num) cleared.
Cleared(bits, idx, num) ==
    [k \in 1..Len(bits) |-> IF idx < k /\ k <= idx + num THEN FALSE ELSE bits[k]]

-----------------------------------------------------------------------------
(* Properties of PageAllocator::init and Pool::init *)

\* Pages from the 1 MiB offset to the end of usable memory.
PagesAboveStart == (MEMORY_INFO.size - MEM_START) \div PAGE_SIZE

\* Where the region handed to a pool's init starts, and how many pages it has.
PoolStart(pool) ==
    IF pool = "kernel" THEN init_locals[1].kernel_start ELSE init_locals[1].user_start
PoolBudget(pool) ==
    IF pool = "kernel" THEN init_locals[1].kernel_pages ELSE init_locals[1].user_pages
\* The leading pages of the region that Pool::init kept for the bitmap.
ReservedPages(pool) == (base[pool] - PoolStart(pool)) \div PAGE_SIZE

\* C11: PageAllocator::init(user_page_limit) gives the user pool exactly
\* min(free_pages / 2, user_page_limit) pages and the kernel pool the rest of the
\* free pages, free_pages being the pages from the 1 MiB offset to the end of
\* usable memory; the user pool starts exactly kernel_pages pages above the
\* start of the kernel pool, which is the lower of the two.
C11_PoolSplit ==
    (phase = "run" /\ init_locals # None) =>
        LET l == init_locals[1]
            user_n == Min(PagesAboveStart \div 2, l.user_page_limit)
        IN  /\ l.free_pages = PagesAboveStart
            /\ l.user_pages = user_n
            /\ l.kernel_pages = PagesAboveStart - user_n
            /\ ReservedPages("user") + avail_pages["user"] = user_n
            /\ ReservedPages("kernel") + avail_pages["kernel"] = PagesAboveStart - user_n
            /\ l.user_start = l.kernel_start + l.kernel_pages * PAGE_SIZE
            /\ l.kernel_pages > 0 => l.kernel_start < l.user_start
            /\ base["kernel"] <= base["user"]

\* init ran with a limit below half the free pages, so the limit decided.
C11_Witness ==
    /\ phase = "run"
    /\ init_locals # None
    /\ init_locals[1].user_page_limit = WordBits
    /\ init_locals[1].free_pages \div 2 > WordBits
    /\ init_locals[1].user_pages = WordBits

\* C12: after init the two pools cover disjoint page ranges: no page of one
\* pool's range, and so no page obtainable from it, is contained (per
\* contains_page) in the other pool.
C12_PoolsDisjoint ==
    phase = "run" =>
        \A p \in Pools, q \in Pools :
            p # q =>
                \A i \in 0..(Len(used_map[p][1]) - 1) :
                    ~contains_page(q, base[p] + i * PAGE_SIZE)

\* C13: after Pool::init the bitmap has exactly one bit per allocatable page
\* (the pool's pages minus those reserved for the bitmap) and every bit is free.
C13_OneFreeBitPerPage ==
    phase = "run" =>
        \A p \in Pools :
            /\ used_map[p] # None
            /\ Len(used_map[p][1]) = avail_pages[p]
            /\ \A k \in 1..Len(used_map[p][1]) : used_map[p][1][k] = FALSE

\* Pages needed to hold one bit per page of a pool of n pages.
BitsPerByte == USIZE_BITS \div USIZE_BYTES
NeededBitmapPages(n) == CeilDiv(n, PAGE_SIZE * BitsPerByte)

\* C14: Pool::init panics when the pages needed to hold the pool's bitmap
\* exceed the pool's page budget, and otherwise reserves enough leading pages
\* to hold one bit per page of the pool.
C14_BitmapReservation ==
    init_locals # None =>
        \A p \in Pools :
            /\ NeededBitmapPages(PoolBudget(p)) > PoolBudget(p) => panicked
            /\ phase = "run" => ReservedPages(p) >= NeededBitmapPages(PoolBudget(p))

-----------------------------------------------------------------------------
(* Properties of the heap allocator *)

\* The blocks on descriptor d's free list.
FreeListBlocks(d) == ListWalk(block_next, descs[d].free_list.head, MaxWalk)

NoDuplicates(seq) == \A i, j \in 1..Len(seq) : i # j => seq[i] # seq[j]
Elems(seq) == {seq[i] : i \in 1..Len(seq)}

\* The largest block size any descriptor serves.
LargestBlockSize == descs[NUM_DESCS].block_size

\* C15: after any sequence of allocate and deallocate calls every block is on
\* at most one descriptor's free list and at most once, a block a caller holds
\* is on no free list, and no two live allocations are the same block.
C15_BlocksHeldOnce ==
    /\ \A d \in DescIds : NoDuplicates(FreeListBlocks(d))
    /\ \A d, e \in DescIds :
          d # e => Elems(FreeListBlocks(d)) \cap Elems(FreeListBlocks(e)) = {}
    /\ \A i \in 1..Len(live), d \in DescIds : live[i].ptr \notin Elems(FreeListBlocks(d))
    /\ \A i, j \in 1..Len(live) : i # j => live[i].ptr # live[j].ptr

\* C16: after the heap is initialised, allocate(size) for a size from 1 to the
\* largest block size goes to the descriptor with the smallest block size that
\* is at least size, and the arena it stamps refers to that descriptor.
C16_SmallestFittingDescriptor ==
    (hlast.op = "alloc" /\ hlast.size >= 1 /\ hlast.size <= LargestBlockSize) =>
        /\ hlast.path = "small"
        /\ hlast.desc # None
        /\ descs[hlast.desc[1]].block_size >= hlast.size
        /\ \A e \in DescIds :
              descs[e].block_size >= hlast.size
                  => descs[e].block_size >= descs[hlast.desc[1]].block_size
        /\ hlast.arena # None => arenas[hlast.arena[1]].desc = hlast.desc

\* A request for 20 bytes went to the 32-byte descriptor and stamped its arena.
C16_Witness ==
    /\ hlast.op = "alloc"
    /\ hlast.size = 20
    /\ hlast.desc # None
    /\ descs[hlast.desc[1]].block_size = 32
    /\ hlast.arena # None
    /\ arenas[hlast.arena[1]].desc = hlast.desc

\* C17: allocate(size) with size above the largest block size takes the
\* big-block path, asks the page allocator once, for exactly
\* ceil((size + header size) / PAGE_SIZE) pages, and on success the arena header
\* records that page count and no descriptor.
C17_BigBlockPages ==
    (hlast.op = "alloc" /\ hlast.size > LargestBlockSize) =>
        LET n == (hlast.size + SIZE_OF_ARENA + PAGE_SIZE - 1) \div PAGE_SIZE IN
        /\ hlast.path = "big"
        /\ hlast.desc = None
        /\ hlast.reqs = <<n>>
        /\ hlast.ret # None =>
              /\ hlast.arena # None
              /\ arenas[hlast.arena[1]] =
                    [magic |-> Arena_MAGIC, desc |-> None, num_free |-> n]

\* A request one byte too long for one page got two pages.
C17_Witness ==
    /\ hlast.op = "alloc"
    /\ hlast.size = PAGE_SIZE - SIZE_OF_ARENA + 1
    /\ hlast.ret # None
    /\ hlast.reqs = <<2>>
    /\ arenas[hlast.arena[1]].num_free = 2

\* C18: a successful big-block allocate returns the address right after the
\* arena header, so the caller's bytes lie past the header and end within the
\* pages obtained.
C18_BigBlockAfterHeader ==
    (hlast.op = "alloc" /\ hlast.path = "big" /\ hlast.ret # None) =>
        /\ hlast.ret[1] = hlast.arena[1] + SIZE_OF_ARENA
        /\ hlast.ret[1] + hlast.size <= hlast.arena[1] + hlast.reqs[1] * PAGE_SIZE

\* C19: deallocate of a pointer a big-block allocate returned completes without
\* a fatal error, frees exactly the page range the arena header records, and
\* leaves the used maps as they were before that allocate.
C19_BigBlockFree ==
    (hlast.op = "dealloc" /\ hlast.path = "big") =>
        /\ hlast.status = "ret"
        /\ ~panicked
        /\ hlast.freed =
              Some([ptr |-> page_round_down(hlast.ptr[1]),
                    num |-> (hlast.size + SIZE_OF_ARENA + PAGE_SIZE - 1) \div PAGE_SIZE])
        /\ Some(used_map) = hlast.pre

\* The blocks of the arenas stamped for descriptor d.
BlocksCreated(d) ==
    Cardinality({a \in DOMAIN arenas : arenas[a].desc = Some(d)}) * descs[d].blocks_per_arena

\* C20: once the allocations of a size class have all been given back and no
\* call can run any further, the descriptor's free list holds exactly as many
\* blocks as its arenas were created with, none of them twice.
C20_FreeListComplete ==
    \A d \in DescIds :
        (\A i \in 1..Len(live) : live[i].big)
            => /\ Len(FreeListBlocks(d)) = BlocksCreated(d)
               /\ NoDuplicates(FreeListBlocks(d))

\* C21: no allocate or deallocate call waits forever on a spin lock; in
\* particular no call spins on a descriptor lock that the same call holds.
C21_NoSelfDeadlock ==
    \A t \in Threads :
        hpc[t] = "spin" => \A d \in DescIds : desc_lock[d] # Some(t)

\* C22: when the page allocator cannot supply the page or pages, allocate
\* returns null without panicking, on the size-class path and on the big-block
\* path alike, and leaves every descriptor's free list, every descriptor lock
\* and every arena header as they were.
C22_NullOnExhaustion ==
    [][(/\ hlast' # hlast
        /\ hlast'.op = "alloc"
        /\ hlast'.reqs # <<>>
        /\ hlast'.arena = None)
       => /\ hlast'.status = "ret"
          /\ hlast'.ret = None
          /\ ~panicked'
          /\ descs' = descs
          /\ arenas' = arenas
          /\ desc_lock' = desc_lock
          /\ live' = live]_vars

\* a size-class allocate came back with null because no page was to be had
C22_Witness ==
    /\ hlast.op = "alloc"
    /\ hlast.path = "small"
    /\ hlast.reqs = <<1>>
    /\ hlast.arena = None
    /\ hlast.status = "ret"
    /\ hlast.ret = None
    /\ ~panicked

\* the same for a big block
C22_WitnessBig ==
    /\ hlast.op = "alloc"
    /\ hlast.path = "big"
    /\ hlast.reqs # <<>>
    /\ hlast.arena = None
    /\ hlast.status = "ret"
    /\ hlast.ret = None
    /\ ~panicked

\* the header a deallocate of ptr looks at
HeaderOf(ptr) == ArenaAt(arenas, page_round_down(ptr))

\* C23: a deallocate on a pointer whose arena header does not carry the magic
\* constant fails at the magic assertion, before any free list, arena count,
\* descriptor lock or page bitmap is modified.
C23_BadMagicPanics ==
    [][(/\ hlast' # hlast
        /\ hlast'.op = "dealloc"
        /\ HeaderOf(hlast'.ptr[1]).magic # Arena_MAGIC)
       => /\ hlast'.status = "panic"
          /\ hlast'.failed = "magic"
          /\ panicked'
          /\ descs' = descs
          /\ arenas' = arenas
          /\ block_next' = block_next
          /\ desc_lock' = desc_lock
          /\ used_map' = used_map]_vars

\* a deallocate met a header whose magic a caller had overwritten
C23_Witness ==
    /\ hlast.op = "dealloc"
    /\ HeaderOf(hlast.ptr[1]).magic = "cccccccc"
    /\ hlast.status = "panic"
    /\ hlast.failed = "magic"

-----------------------------------------------------------------------------
(* MemoryInfo::init and MemoryInfo::get, step by step and interleaved *)

\* Boot infos with and without a mapping offset, with the first usable region
\* first or behind others, and one without any usable region.
MemBootInfos ==
    { BootInfo(512 * PAGE_SIZE, Some(4096 * PAGE_SIZE)),
      BootInfo(512 * PAGE_SIZE, None),
      [memory_regions |->
          << [start |-> PAGE_SIZE, end |-> 3 * PAGE_SIZE, kind |-> "Usable"],
             [start |-> 3 * PAGE_SIZE, end |-> 4 * PAGE_SIZE, kind |-> "Bootloader"],
             [start |-> 4 * PAGE_SIZE, end |-> 9 * PAGE_SIZE, kind |-> "Usable"] >>,
       physical_memory_offset |-> Some(PAGE_SIZE)],
      [memory_regions |->
          << [start |-> 0, end |-> 2 * PAGE_SIZE, kind |-> "Bootloader"] >>,
       physical_memory_offset |-> Some(PAGE_SIZE)] }

\* The fields of MemoryInfo, in the order a copy of the struct moves them.
MiFields == <<"base_address", "size", "base_virtual_address">>

MainThread == HeapThread

\* a lock that lets everyone through
CanLockAlways == TRUE
\* MEMORY_INFO.lock(): the spin lock is free
CanLock == mi_lock = None

\* MemoryInfo::get by thread t: MEMORY_INFO.lock()
get_lock(t) ==
    /\ ~panicked
    /\ mi_pc[t] = MiIdle
    /\ CanLock
    /\ mi_lock' = Some(t)
    /\ mi_pc' = [mi_pc EXCEPT ![t] = [at |-> "read", k |-> 1, for |-> "get"]]
    /\ UNCHANGED <<phase, MEMORY_INFO, used_map, base, avail_pages, panicked, last, held,
                   pc, call, cret, scan_in, scan_out, init_locals, heap_vars,
                   members, irq_vars, boot_arg, mi_local, mi_seen, int_vars, fn_vars>>

\* the copy out of the guard (`*MEMORY_INFO.lock()`), one field at a time; the
\* same steps serve init's `Self::get()` of line 120
get_read(t) ==
    /\ ~panicked
    /\ mi_pc[t].at = "read"
    /\ LET f == MiFields[mi_pc[t].k] IN
          mi_local' = [mi_local EXCEPT ![t][f] = MEMORY_INFO[f]]
    /\ mi_pc' = [mi_pc EXCEPT ![t] =
                    IF @.k < Len(MiFields) THEN [@ EXCEPT !.k = @ + 1]
                    ELSE [@ EXCEPT !.at = "unlock"]]
    /\ UNCHANGED <<phase, MEMORY_INFO, used_map, base, avail_pages, panicked, last, held,
                   pc, call, cret, scan_in, scan_out, init_locals, heap_vars,
                   members, irq_vars, boot_arg, mi_lock, mi_seen, int_vars, fn_vars>>

\* the guard is dropped and the copy returned
get_unlock(t) ==
    /\ ~panicked
    /\ mi_pc[t].at = "unlock"
    /\ mi_lock' = None
    /\ IF mi_pc[t].for = "get"
       THEN /\ mi_seen' = [mi_seen EXCEPT ![t] = Some(mi_local[t])]
            /\ mi_pc' = [mi_pc EXCEPT ![t] = MiIdle]
       ELSE /\ mi_pc' = [mi_pc EXCEPT ![t] = [@ EXCEPT !.at = "compute"]]
            /\ UNCHANGED mi_seen
    /\ UNCHANGED <<phase, MEMORY_INFO, used_map, base, avail_pages, panicked, last, held,
                   pc, call, cret, scan_in, scan_out, init_locals, heap_vars,
                   members, irq_vars, boot_arg, mi_local, int_vars, fn_vars>>

\* MemoryInfo::init(boot_info) by the main thread: line 120 locks for its get
init_call(t, boot_info) ==
    /\ ~panicked
    /\ phase = "boot"
    /\ t = MainThread
    /\ boot_arg = None
    /\ mi_pc[t] = MiIdle
    /\ CanLock
    /\ mi_lock' = Some(t)
    /\ boot_arg' = Some(boot_info)
    /\ mi_pc' = [mi_pc EXCEPT ![t] = [at |-> "read", k |-> 1, for |-> "init"]]
    /\ UNCHANGED <<phase, MEMORY_INFO, used_map, base, avail_pages, panicked, last, held,
                   pc, call, cret, scan_in, scan_out, init_locals, heap_vars,
                   members, irq_vars, mi_local, mi_seen, int_vars, fn_vars>>

\* lines 122-130, on the local copy
init_compute(t) ==
    /\ ~panicked
    /\ mi_pc[t].at = "compute"
    /\ mi_local' = [mi_local EXCEPT ![t] = InfoOf(boot_arg[1], @)]
    /\ mi_pc' = [mi_pc EXCEPT ![t] = [@ EXCEPT !.at = "lock"]]
    /\ UNCHANGED <<phase, MEMORY_INFO, used_map, base, avail_pages, panicked, last, held,
                   pc, call, cret, scan_in, scan_out, init_locals, heap_vars,
                   members, irq_vars, boot_arg, mi_lock, mi_seen, int_vars, fn_vars>>

\* line 132: MEMORY_INFO.lock()
init_lock(t) ==
    /\ ~panicked
    /\ mi_pc[t].at = "lock"
    /\ CanLock
    /\ mi_lock' = Some(t)
    /\ mi_pc' = [mi_pc EXCEPT ![t] = [@ EXCEPT !.at = "write", !.k = 1]]
    /\ UNCHANGED <<phase, MEMORY_INFO, used_map, base, avail_pages, panicked, last, held,
                   pc, call, cret, scan_in, scan_out, init_locals, heap_vars,
                   members, irq_vars, boot_arg, mi_local, mi_seen, int_vars, fn_vars>>

\* line 132: `*guard = info`, one field at a time
init_write(t) ==
    /\ ~panicked
    /\ mi_pc[t].at = "write"
    /\ LET f == MiFields[mi_pc[t].k] IN
          MEMORY_INFO' = [MEMORY_INFO EXCEPT ![f] = mi_local[t][f]]
    /\ mi_pc' = [mi_pc EXCEPT ![t] =
                    IF @.k < Len(MiFields) THEN [@ EXCEPT !.k = @ + 1]
                    ELSE [@ EXCEPT !.at = "release"]]
    /\ UNCHANGED <<phase, used_map, base, avail_pages, panicked, last, held,
                   pc, call, cret, scan_in, scan_out, init_locals, heap_vars,
                   members, irq_vars, boot_arg, mi_lock, mi_local, mi_seen, int_vars, fn_vars>>

\* the guard is dropped and init returns
init_unlock(t) ==
    /\ ~panicked
    /\ mi_pc[t].at = "release"
    /\ mi_lock' = None
    /\ mi_pc' = [mi_pc EXCEPT ![t] = MiIdle]
    /\ phase' = "mem"
    /\ UNCHANGED <<MEMORY_INFO, used_map, base, avail_pages, panicked, last, held,
                   pc, call, cret, scan_in, scan_out, init_locals, heap_vars,
                   members, irq_vars, boot_arg, mi_local, mi_seen, int_vars, fn_vars>>

NextMemInfo ==
    \E t \in Threads :
        \/ get_lock(t)
        \/ get_read(t)
        \/ get_unlock(t)
        \/ \E b \in MemBootInfos : init_call(t, b)
        \/ init_compute(t)
        \/ init_lock(t)
        \/ init_write(t)
        \/ init_unlock(t)

SpecMemInfo == Init /\ [][NextMemInfo]_vars

-----------------------------------------------------------------------------
(* Properties of the address conversions *)

\* C24: to_kernel_physical and to_kernel_virtual are exact inverses for every
\* memory info: a physical address taken to virtual and back, and a kernel
\* virtual address taken to physical and back, is the address started from.
C24_RoundTrip ==
    (Len(fn_out) = 2 /\ fn_out[2].kind # "panic") => fn_out[2] = fn_in

\* C25: to_kernel_physical on an address below the split point (virtual offset
\* + PHYS_BASE) fails fatally, and on no other address; every address is
\* exactly one of user and kernel.
C25_SplitAndAssert ==
    fn_in.kind = "virt"
    => /\ is_user(fn_in.val) # is_kernel(fn_in.val)
       /\ fn_out # <<>>
          => /\ (fn_out[1].kind = "panic")
                   = (fn_in.val < MEMORY_INFO.base_virtual_address + PHYS_BASE)
             /\ panicked = (fn_out[1].kind = "panic")

\* to_kernel_physical was called on the last user address and panicked
C25_Witness ==
    /\ fn_in.kind = "virt"
    /\ fn_in.val = MEMORY_INFO.base_virtual_address + PHYS_BASE - 1
    /\ fn_out = <<[kind |-> "panic", val |-> 0]>>
    /\ panicked

\* to_kernel_physical was called on the first kernel address and returned
C25_WitnessKernel ==
    /\ fn_in.kind = "virt"
    /\ fn_in.val = MEMORY_INFO.base_virtual_address + PHYS_BASE
    /\ Len(fn_out) = 1
    /\ fn_out[1].kind = "phys"
    /\ ~panicked

-----------------------------------------------------------------------------
(* Properties of MemoryInfo *)

\* the indexes of the usable regions of a boot info
UsableAt(b) == {k \in 1..Len(b.memory_regions) : b.memory_regions[k].kind = "Usable"}

\* C26: once MemoryInfo::init has returned, the record holds the start and the
\* size (end - start) of the first region marked usable, whatever regions
\* follow it, and the boot loader's mapping offset, or 0 when there is none.
C26_FirstUsableRegion ==
    (phase = "mem" /\ boot_arg # None)
    => LET b == boot_arg[1]
           regs == b.memory_regions
       IN  /\ \A k \in UsableAt(b) :
                  (\A j \in UsableAt(b) : k <= j)
                  => /\ MEMORY_INFO.base_address = regs[k].start
                     /\ MEMORY_INFO.size = regs[k].end - regs[k].start
           /\ MEMORY_INFO.base_virtual_address =
                  IF b.physical_memory_offset = None THEN 0
                  ELSE b.physical_memory_offset[1]

\* init has run on a boot info without a mapping offset whose first usable
\* region follows another region and is followed by a second usable one
C26_Witness ==
    /\ phase = "mem"
    /\ boot_arg # None
    /\ boot_arg[1].physical_memory_offset = None
    /\ Cardinality(UsableAt(boot_arg[1])) = 2
    /\ 1 \notin UsableAt(boot_arg[1])
    /\ MEMORY_INFO.base_address = boot_arg[1].memory_regions[2].start
    /\ MEMORY_INFO.base_virtual_address = 0

\* C27: MemoryInfo::get never returns a partially updated record: under any
\* interleaving with MemoryInfo::init the copy is the complete record from
\* before init's write or the complete record after it.
C27_GetIsAtomic ==
    \A t \in Threads :
        mi_seen[t] # None
        => \/ mi_seen[t][1] = NoInfo
           \/ boot_arg # None /\ mi_seen[t][1] = InfoOf(boot_arg[1], NoInfo)

\* a get that waited for init's write has returned the new record, and a get
\* by the other thread had returned the old one
C27_Witness ==
    /\ boot_arg # None
    /\ InfoOf(boot_arg[1], NoInfo) # NoInfo
    /\ \E t \in Threads : mi_seen[t] = Some(InfoOf(boot_arg[1], NoInfo))
    /\ \E t \in Threads : mi_seen[t] = Some(NoInfo)

-----------------------------------------------------------------------------
(* kernel/src/threads/interrupt.rs: Interrupts, with calls interleaved *)

\* The handlers registered in the model.
Handlers == {"Timer::on_interrupt", "other"}

\* How often the model lets the table be set up.
MaxSetups == 2

\* a plain load of the flag that always finds it clear
SwapSeesFalse(flag) == FALSE
\* INITIALIZED.swap(true, Relaxed): the value the flag held, read and replaced
\* in one atomic step
SwapOld(flag) == flag

\* Interrupts::init by thread t, lines 27-29: the swap and the panic
int_init_swap(t) ==
    /\ ~panicked
    /\ int_pc[t] \in {"idle", "done"}
    /\ INITIALIZED' = TRUE
    /\ IF SwapOld(INITIALIZED)
       THEN /\ panicked' = TRUE
            /\ int_pc' = [int_pc EXCEPT ![t] = "panicked"]
       ELSE /\ panicked' = FALSE
            /\ int_pc' = [int_pc EXCEPT ![t] = "setup"]
    /\ UNCHANGED <<phase, MEMORY_INFO, used_map, base, avail_pages, last, held,
                   pc, call, cret, scan_in, scan_out, init_locals, heap_vars,
                   members, irq_vars, boot_arg, mi_vars, HANDLERS, int_enabled, table_setups,
                   fn_vars>>

\* line 38: set_general_handler! fills INTERRUPT_TABLE
int_init_setup(t) ==
    /\ ~panicked
    /\ int_pc[t] = "setup"
    /\ table_setups < MaxSetups
    /\ table_setups' = table_setups + 1
    /\ int_pc' = [int_pc EXCEPT ![t] = "load"]
    /\ UNCHANGED <<phase, MEMORY_INFO, used_map, base, avail_pages, panicked, last, held,
                   pc, call, cret, scan_in, scan_out, init_locals, heap_vars,
                   members, irq_vars, boot_arg, mi_vars, INITIALIZED, HANDLERS, int_enabled,
                   fn_vars>>

\* line 44: INTERRUPT_TABLE.load(), and init returns
int_init_load(t) ==
    /\ ~panicked
    /\ int_pc[t] = "load"
    /\ int_pc' = [int_pc EXCEPT ![t] = "done"]
    /\ UNCHANGED <<phase, MEMORY_INFO, used_map, base, avail_pages, panicked, last, held,
                   pc, call, cret, scan_in, scan_out, init_locals, heap_vars,
                   members, irq_vars, boot_arg, mi_vars, INITIALIZED, HANDLERS, int_enabled,
                   table_setups, fn_vars>>

\* Interrupts::register_handler(index, func, name)
register_handler(index, func) ==
    /\ ~panicked
    /\ HANDLERS' = [HANDLERS EXCEPT ![index] = Some(func)]
    /\ UNCHANGED <<phase, MEMORY_INFO, used_map, base, avail_pages, panicked, last, held,
                   pc, call, cret, scan_in, scan_out, init_locals, heap_vars,
                   members, irq_vars, boot_arg, mi_vars, INITIALIZED, int_enabled, int_pc,
                   table_setups, fn_vars>>

\* Interrupts::set_level(enabled): enable() or disable()
set_level(enabled) ==
    /\ ~panicked
    /\ int_enabled' = enabled
    /\ UNCHANGED <<phase, MEMORY_INFO, used_map, base, avail_pages, panicked, last, held,
                   pc, call, cret, scan_in, scan_out, init_locals, heap_vars,
                   members, irq_vars, boot_arg, mi_vars, INITIALIZED, HANDLERS, int_pc,
                   table_setups, fn_vars>>

NextInterrupts ==
    \/ \E t \in Threads : int_init_swap(t) \/ int_init_setup(t) \/ int_init_load(t)
    \/ \E i \in IntIndexes, f \in Handlers : register_handler(i, f)
    \/ \E e \in BOOLEAN : set_level(e)

SpecInterrupts == Init /\ [][NextInterrupts]_vars

-----------------------------------------------------------------------------
(* Properties of Interrupts *)

\* a call of Interrupts::init begins in this step
IntCallStarts ==
    \E t \in Threads : int_pc[t] \in {"idle", "done"} /\ int_pc'[t] # int_pc[t]

\* the threads past the swap and inside the table setup
InSetup == {t \in Threads : int_pc[t] \in {"setup", "load"}}

\* C28: Interrupts::init runs its table setup at most once: under any sequence
\* or interleaving of calls the first call to swap the flag proceeds and every
\* other call panics, so the table is filled at most once and never by two
\* threads at a time.
C28_InitOnce ==
    [][/\ table_setups' <= 1
       /\ Cardinality(InSetup') <= 1
       /\ IntCallStarts
          => IF INITIALIZED
             THEN panicked' /\ table_setups' = table_setups /\ InSetup' = InSetup
             ELSE ~panicked' /\ Cardinality(InSetup') = 1]_vars

\* one call has set the table up and returned, and a later call has panicked
C28_Witness ==
    /\ table_setups = 1
    /\ \E t \in Threads : int_pc[t] = "done"
    /\ \E t \in Threads : int_pc[t] = "panicked"
    /\ panicked

\* a call has panicked while the first one was still inside the setup
C28_WitnessInterleaved ==
    /\ \E t \in Threads : int_pc[t] = "setup"
    /\ \E t \in Threads : int_pc[t] = "panicked"
    /\ panicked

-----------------------------------------------------------------------------
(* Arena::to_block on its own, over every descriptor and block index *)

\* The pages an arena is stamped on: the first pages PageAllocator hands out
\* for a mapping offset of 16 MiB and a usable region at 2 MiB.
ArenaPages ==
    {PHYS_BASE + 4096 * PAGE_SIZE + 512 * PAGE_SIZE + MEM_START + k * PAGE_SIZE :
        k \in {1, 2}}

\* The heap as init_heap leaves it; the page allocator plays no part here.
HeapReady ==
    /\ phase = "run"
    /\ MEMORY_INFO = InfoOf(BootInfo(512 * PAGE_SIZE, Some(4096 * PAGE_SIZE)), NoInfo)
    /\ used_map = [p \in Pools |-> None]
    /\ base = [p \in Pools |-> 0]
    /\ avail_pages = [p \in Pools |-> 0]
    /\ panicked = FALSE
    /\ last = NoCall
    /\ held = None
    /\ pc = [t \in Threads |-> "idle"]
    /\ call = [t \in Threads |-> None]
    /\ cret = [t \in Threads |-> None]
    /\ scan_in = NoScan
    /\ scan_out = [done |-> FALSE, ret |-> None]
    /\ init_locals = None
    /\ heap_init = TRUE
    /\ descs = SimpleAlloc_init([d \in DescIds |-> Descriptor_new])
    /\ desc_lock = [d \in DescIds |-> None]
    /\ block_next = <<>>
    /\ hpc = [t \in Threads |-> "idle"]
    /\ hlast = NoHeapCall
    /\ live = <<>>
    /\ AuxInit

\* One arena stamped for descriptor d as lines 59-63 stamp it, and to_block
\* about to be called on it with idx.
InitBlock ==
    /\ HeapReady
    /\ \E a \in ArenaPages, d \in DescIds :
          /\ arenas = Store(<<>>, a, [magic |-> Arena_MAGIC, desc |-> Some(d),
                                      num_free |-> descs[d].blocks_per_arena])
          /\ fn_in \in [arena : {a}, desc : {d}, idx : 0..descs[d].blocks_per_arena]
    /\ fn_out = None

\* arena.to_block(idx)
to_block_call ==
    /\ ~panicked
    /\ fn_out = None
    /\ \E r \in {Arena_to_block(HeapState, fn_in.arena, fn_in.idx)} :
          /\ fn_out' = Some(r)
          /\ panicked' = (r.status = "panic")
    /\ UNCHANGED <<phase, MEMORY_INFO, used_map, base, avail_pages, last, held,
                   pc, call, cret, scan_in, scan_out, init_locals, heap_vars,
                   members, irq_vars, boot_arg, mi_vars, int_vars, fn_in>>

NextBlock == to_block_call

SpecBlock == InitBlock /\ [][NextBlock]_vars

\* C29: every address a size-class allocate hands out is a block address of
\* Arena::to_block, and that is aligned to 8 bytes for every descriptor and
\* every block index.
C29_BlocksAligned ==
    (fn_out # None /\ fn_out[1].status = "ok") => fn_out[1].block % 8 = 0

\* to_block has returned the last block of an arena
C29_Witness ==
    /\ fn_out # None
    /\ fn_out[1].status = "ok"
    /\ fn_in.idx = descs[fn_in.desc].blocks_per_arena - 1
    /\ fn_in.idx > 0
    /\ fn_out[1].block = fn_in.arena + SIZE_OF_ARENA + fn_in.idx * descs[fn_in.desc].block_size

-----------------------------------------------------------------------------
(* BlockList on its own: the free list of one descriptor under any sequence *)
(* of its four operations                                                   *)

\* How many blocks the list is given.
MaxBlocks == 3

\* The descriptor whose free list is exercised: the 16-byte size class.
ListDesc == 1

\* The first blocks of one arena of that descriptor.
ListBlocks ==
    {BlockAddr(CHOOSE a \in ArenaPages : TRUE, i, FIRST_BLOCK_SIZE) : i \in 0..(MaxBlocks - 1)}

InitList ==
    /\ HeapReady
    /\ arenas = <<>>
    /\ fn_in = None
    /\ fn_out = None

\* The blocks met walking the exercised list from its head, in order.
ListNow ==
    ListWalk(block_next, descs[ListDesc].free_list.head, WalkFuel(block_next))

\* free_list.push_back(block), as the carve loop calls it (line 69)
list_push_back(block) ==
    /\ ~panicked
    /\ hpc[HeapThread] = "idle"
    /\ block \notin members
    /\ \E r \in {push_back(descs[ListDesc].free_list, block_next, block)} :
          /\ descs' = [descs EXCEPT ![ListDesc].free_list = r.list]
          /\ block_next' = r.mem
    /\ members' = members \cup {block}
    /\ fn_in' = Some([op |-> "push_back", block |-> Some(block), before |-> ListNow])
    /\ fn_out' = None
    /\ UNCHANGED <<phase, MEMORY_INFO, used_map, base, avail_pages, panicked, last, held,
                   pc, call, cret, scan_in, scan_out, init_locals,
                   heap_init, desc_lock, arenas, hpc, hlast, live,
                   irq_vars, boot_arg, mi_vars, int_vars>>

\* free_list.push_front(block), as dealloc calls it (line 110) on a block whose
\* bytes its owner or write_bytes has overwritten
list_push_front(block) ==
    /\ ~panicked
    /\ hpc[HeapThread] = "idle"
    /\ block \notin members
    /\ \E r \in {push_front(descs[ListDesc].free_list, Unwritten(block_next, block), block)} :
          /\ descs' = [descs EXCEPT ![ListDesc].free_list = r.list]
          /\ block_next' = r.mem
    /\ members' = members \cup {block}
    /\ fn_in' = Some([op |-> "push_front", block |-> Some(block), before |-> ListNow])
    /\ fn_out' = None
    /\ UNCHANGED <<phase, MEMORY_INFO, used_map, base, avail_pages, panicked, last, held,
                   pc, call, cret, scan_in, scan_out, init_locals,
                   heap_init, desc_lock, arenas, hpc, hlast, live,
                   irq_vars, boot_arg, mi_vars, int_vars>>

\* free_list.pop_front(), as alloc calls it (line 73)
list_pop_front(junk) ==
    /\ ~panicked
    /\ hpc[HeapThread] = "idle"
    /\ \E r \in {pop_front(descs[ListDesc].free_list, block_next, junk)} :
          /\ descs' = [descs EXCEPT ![ListDesc].free_list = r.list]
          /\ members' = IF r.block = None THEN members ELSE members \ {r.block[1]}
          /\ fn_out' = Some(r.block)
    /\ fn_in' = Some([op |-> "pop_front", block |-> None, before |-> ListNow])
    /\ UNCHANGED <<phase, MEMORY_INFO, used_map, base, avail_pages, panicked, last, held,
                   pc, call, cret, scan_in, scan_out, init_locals,
                   heap_init, desc_lock, arenas, block_next, hpc, hlast, live,
                   irq_vars, boot_arg, mi_vars, int_vars>>

\* free_list.remove(block), as the reclaim loop calls it (line 117)
list_remove(block, junk) ==
    /\ ~panicked
    /\ hpc[HeapThread] = "idle"
    /\ \E r \in {remove(descs[ListDesc].free_list, block_next, block, junk)} :
          /\ descs' = [descs EXCEPT ![ListDesc].free_list = r.list]
          /\ block_next' = r.mem
          /\ hpc' = [hpc EXCEPT ![HeapThread] = IF r.hang THEN "spin" ELSE "idle"]
    /\ members' = members \ {block}
    /\ fn_in' = Some([op |-> "remove", block |-> Some(block), before |-> ListNow])
    /\ fn_out' = None
    /\ UNCHANGED <<phase, MEMORY_INFO, used_map, base, avail_pages, panicked, last, held,
                   pc, call, cret, scan_in, scan_out, init_locals,
                   heap_init, desc_lock, arenas, hlast, live,
                   irq_vars, boot_arg, mi_vars, int_vars>>

NextList ==
    \/ \E b \in ListBlocks : list_push_back(b)
    \/ \E b \in ListBlocks : list_push_front(b)
    \/ \E junk \in JunkNexts : list_pop_front(junk)
    \/ \E b \in ListBlocks, junk \in JunkNexts : list_remove(b, junk)

SpecList == InitList /\ [][NextList]_vars

\* C30: allocate asks for a new page only when the free list holds no block
\* at all: its test, free_list.is_empty(), is true of no list that holds a
\* block, a list of exactly one block included.
C30_EmptyOnlyWithoutBlocks ==
    is_empty(descs[ListDesc].free_list) => members = {}

-----------------------------------------------------------------------------
(* Further properties of the heap allocator *)

\* the blocks of the arena at a that belongs to descriptor d
ArenaBlocks(a, d) ==
    {BlockAddr(a, i, descs[d].block_size) : i \in 0..(descs[d].blocks_per_arena - 1)}

C39_FreeCountMatchesList ==
    \A a \in DOMAIN arenas :
        arenas[a].desc # None
        => LET d == arenas[a].desc[1]
               on_list == {b \in Elems(FreeListBlocks(d)) : page_round_down(b) = a}
           IN  /\ arenas[a].num_free = Cardinality(on_list)
               /\ arenas[a].num_free >= 0
               /\ arenas[a].num_free <= descs[d].blocks_per_arena

\* C35: after init_heap there are log2(PAGE_SIZE / 32) = 7 descriptors whose
\* block sizes are 16, 32, ..., doubling at each step, strictly increasing and
\* all smaller than PAGE_SIZE; each blocks_per_arena is (PAGE_SIZE - header
\* size) / block_size and at least 1; no later heap call changes these values.
C35_DescriptorTable ==
    heap_init
    => /\ NUM_DESCS = 7
       /\ DOMAIN descs = 1..NUM_DESCS
       /\ \A d \in DescIds :
             /\ descs[d].block_size = 16 * 2 ^ (d - 1)
             /\ descs[d].block_size < PAGE_SIZE
             /\ d > 1 => /\ descs[d].block_size = 2 * descs[d - 1].block_size
                         /\ descs[d].block_size > descs[d - 1].block_size
             /\ descs[d].blocks_per_arena * descs[d].block_size <= PAGE_SIZE - SIZE_OF_ARENA
             /\ (descs[d].blocks_per_arena + 1) * descs[d].block_size > PAGE_SIZE - SIZE_OF_ARENA
             /\ descs[d].blocks_per_arena >= 1

\* the table is as init_heap left it after an allocate and a deallocate
C35_Witness ==
    /\ heap_init
    /\ hlast.op = "dealloc"
    /\ descs[1].block_size = FIRST_BLOCK_SIZE
    /\ descs[NUM_DESCS].blocks_per_arena = 3
    /\ \E a \in DOMAIN arenas : arenas[a].magic = Arena_MAGIC

-----------------------------------------------------------------------------
(* Further properties of Arena::to_block and Block::to_arena *)

\* C36: for every descriptor and every block index i < blocks_per_arena, block
\* i lies entirely after the header and entirely inside the one page of its
\* arena, overlaps no other block of the arena, and rounding its address down
\* to the page boundary gives the arena: to_arena(to_block(i)) is the arena.
C36_BlocksInsideArena ==
    (fn_out # None /\ fn_out[1].status = "ok")
    => LET a == fn_in.arena
           bs == descs[fn_in.desc].block_size
           b == fn_out[1].block
       IN  /\ fn_in.idx < descs[fn_in.desc].blocks_per_arena
           /\ b >= a + SIZE_OF_ARENA
           /\ b + bs <= a + PAGE_SIZE
           /\ \A j \in 0..(descs[fn_in.desc].blocks_per_arena - 1) :
                 j # fn_in.idx
                 => \/ BlockAddr(a, j, bs) + bs <= b
                    \/ b + bs <= BlockAddr(a, j, bs)
           /\ page_round_down(b) = a
           /\ Block_to_arena(HeapState, b).status = "ok"
           /\ Block_to_arena(HeapState, b).arena = a

\* to_block has returned the last block of an arena of the largest size class
C36_Witness ==
    /\ fn_out # None
    /\ fn_out[1].status = "ok"
    /\ fn_in.desc = NUM_DESCS
    /\ fn_in.idx = descs[NUM_DESCS].blocks_per_arena - 1
    /\ fn_out[1].block + descs[NUM_DESCS].block_size > fn_in.arena + PAGE_SIZE - descs[NUM_DESCS].block_size
    /\ Block_to_arena(HeapState, fn_out[1].block).arena = fn_in.arena

-----------------------------------------------------------------------------
(* Further properties of BlockList *)

\* the list under exercise
TheList == descs[ListDesc].free_list

\* seq without the element x
Without(seq, x) == SelectSeq(seq, LAMBDA y : y # x)

\* C32: a remove of the reclaim loop takes its block off the free list (the
\* block is neither head nor tail nor met on a walk from head any more) and
\* leaves the other blocks on the list, in their previous order.
C32_RemoveTakesBlockOff ==
    (/\ fn_in # None
     /\ fn_in[1].op = "remove"
     /\ fn_in[1].block[1] \in Elems(fn_in[1].before)
     /\ hpc[HeapThread] = "idle")
    => /\ TheList.head # fn_in[1].block
       /\ TheList.tail # fn_in[1].block
       /\ ListNow = Without(fn_in[1].before, fn_in[1].block[1])

\* C37: freed blocks are reused LIFO: after the push_front of a deallocate the
\* next allocate of the size class is served that block, that is, its test for
\* an empty list fails and its pop_front yields the block, be a page to be had
\* or not.
C37_FreedBlockServedNext ==
    (fn_in # None /\ fn_in[1].op = "push_front")
    => /\ ~is_empty(TheList)
       /\ \A junk \in JunkNexts :
             pop_front(TheList, block_next, junk).block = fn_in[1].block

\* C38: after any sequence of push_back, push_front, pop_front and remove,
\* whatever the blocks' memory held before: head is none exactly when tail is
\* none, a walk from head meets only blocks pushed and not yet popped or
\* removed, the walk ends at tail, and tail's next is none.
C38_ListWellFormed ==
    hpc[HeapThread] = "idle"
    => /\ (TheList.head = None) = (TheList.tail = None)
       /\ Elems(ListNow) \subseteq members
       /\ ListNow # <<>> => Some(ListNow[Len(ListNow)]) = TheList.tail
       /\ TheList.tail # None
          => \A junk \in JunkNexts : NextOf(block_next, TheList.tail[1], junk) = None

-----------------------------------------------------------------------------
(* SimpleAlloc::alloc step by step: two threads and an interrupt handler on   *)
(* one CPU.  A thread's call moves from lock to lock; the handler runs with   *)
(* interrupts off, so nothing else runs until it returns, and a handler that  *)
(* spins on a lock never returns.                                             *)

\* Who holds a lock when it is the interrupt handler (threads are 1 and 2).
IrqContext == 0

\* Request sizes: the first two size classes and a big block.
StepSizes == {1, FIRST_BLOCK_SIZE + 1, 1025}

\* The variables no step of an allocate writes.
step_frame ==
    <<phase, MEMORY_INFO, base, avail_pages, last, held, pc, cret, scan_in, scan_out,
      init_locals, heap_init, hlast, live, members, boot_arg, mi_vars,
      INITIALIZED, HANDLERS, int_pc, table_setups, fn_vars>>

\* a spin lock that lets everyone through
LockFreeAlways(holder) == TRUE
\* Spinlock::lock() gets through: nobody holds the lock
LockFree(holder) == holder = None

\* a second CPU: threads run while the handler does
CpuShared(handler) == TRUE
\* Threads run when no interrupt handler is on the CPU.
CpuFree(handler) == handler = None

Running(t, at) ==
    /\ heap_init
    /\ ~panicked
    /\ CpuFree(irq)
    /\ hpc[t] = at

\* The heap as a call that ended with result r leaves it.
HeapAfter(r) ==
    /\ descs' = r.h.descs
    /\ arenas' = r.h.arenas
    /\ block_next' = r.h.mem
    /\ desc_lock' = r.h.locks
    /\ panicked' = (r.status = "panic")

\* alloc(layout) is called: line 45
a_enter(t, size) ==
    /\ Running(t, "idle")
    /\ call' = [call EXCEPT ![t] = Some([size |-> size, k |-> 1, desc |-> None,
                                          num |-> 0, arena |-> None])]
    /\ hpc' = [hpc EXCEPT ![t] = "find"]
    /\ UNCHANGED <<step_frame, used_map, panicked, descs, desc_lock, arenas, block_next,
                   int_enabled, irq_vars>>

\* Line 49, one descriptor of the find: d.lock().block_size >= layout.size();
\* past the last descriptor the big-block path asks for its pages (line 82).
a_find(t) ==
    /\ Running(t, "find")
    /\ LET c == call[t][1] IN
       IF c.k > NUM_DESCS
       THEN /\ call' = [call EXCEPT ![t] = Some([c EXCEPT !.num = BigBlockPages(c.size)])]
            /\ hpc' = [hpc EXCEPT ![t] = "pages"]
       ELSE /\ LockFree(desc_lock[c.k])
            /\ IF DescFits(descs[c.k].block_size, c.size)
               THEN /\ call' = [call EXCEPT ![t] = Some([c EXCEPT !.desc = Some(c.k)])]
                    /\ hpc' = [hpc EXCEPT ![t] = "lock"]
               ELSE /\ call' = [call EXCEPT ![t] = Some([c EXCEPT !.k = c.k + 1])]
                    /\ UNCHANGED hpc
    /\ UNCHANGED <<step_frame, used_map, panicked, descs, desc_lock, arenas, block_next,
                   int_enabled, irq_vars>>

\* Line 52: desc_raw.lock()
a_lock(t) ==
    /\ Running(t, "lock")
    /\ LET d == call[t][1].desc[1] IN
          /\ LockFree(desc_lock[d])
          /\ desc_lock' = [desc_lock EXCEPT ![d] = Some(t)]
    /\ hpc' = [hpc EXCEPT ![t] = "locked"]
    /\ UNCHANGED <<step_frame, used_map, panicked, call, descs, arenas, block_next,
                   int_enabled, irq_vars>>

\* Line 53: the list is taken for empty and a page is asked for, or lines 73-78
\* pop a block.
a_check(t) ==
    /\ Running(t, "locked")
    /\ LET c == call[t][1]
           d == c.desc[1]
       IN  IF is_empty(descs[d].free_list)
           THEN /\ call' = [call EXCEPT ![t] = Some([c EXCEPT !.num = 1])]
                /\ hpc' = [hpc EXCEPT ![t] = "pages"]
                /\ UNCHANGED <<panicked, descs, desc_lock, arenas, block_next>>
           ELSE \E junk \in JunkNexts :
                \E r \in {alloc_pop(HeapState, d, junk, None, <<>>)} :
                   /\ HeapAfter(r)
                   /\ hpc' = [hpc EXCEPT ![t] = IF r.status = "spin" THEN "spin" ELSE "idle"]
                   /\ UNCHANGED call
    /\ UNCHANGED <<step_frame, used_map, int_enabled, irq_vars>>

\* get_pages line 61: pool.used_map.lock(), the kernel pool's
a_pages_lock(t) ==
    /\ Running(t, "pages")
    /\ LockFree(map_lock["kernel"])
    /\ map_lock' = [map_lock EXCEPT !["kernel"] = Some(t)]
    /\ hpc' = [hpc EXCEPT ![t] = "scan"]
    /\ UNCHANGED <<step_frame, used_map, panicked, call, descs, desc_lock, arenas,
                   block_next, int_enabled, irq>>

\* get_pages lines 62-76: the scan, the unlock, the address; without a page the
\* allocate returns null (lines 55 and 84) and its descriptor guard is dropped.
a_pages_scan(t) ==
    /\ Running(t, "scan")
    /\ map_lock' = [map_lock EXCEPT !["kernel"] = None]
    /\ LET c == call[t][1]
           r == get_pages_locked("kernel", c.num)
           ret == IF r.idx = None THEN None ELSE get_pages_addr("kernel", r.idx[1])
       IN  /\ used_map' = IF r.idx = None THEN used_map
                          ELSE [used_map EXCEPT !["kernel"] = r.map]
           /\ IF ret = None
              THEN /\ desc_lock' = IF c.desc = None THEN desc_lock
                                   ELSE [desc_lock EXCEPT ![c.desc[1]] = None]
                   /\ hpc' = [hpc EXCEPT ![t] = "idle"]
                   /\ call' = [call EXCEPT ![t] = None]
              ELSE /\ call' = [call EXCEPT ![t] = Some([c EXCEPT !.arena = ret])]
                   /\ hpc' = [hpc EXCEPT ![t] = "stamp"]
                   /\ UNCHANGED desc_lock
    /\ UNCHANGED <<step_frame, panicked, descs, arenas, block_next, int_enabled, irq>>

\* Lines 57-65 and 86-93: the header is written at the page; the big block is
\* handed out at once.
a_stamp(t) ==
    /\ Running(t, "stamp")
    /\ LET c == call[t][1]
           a == c.arena[1]
       IN  IF c.desc = None
           THEN /\ arenas' = Store(arenas, a, [magic |-> Arena_MAGIC, desc |-> None,
                                               num_free |-> c.num])
                /\ hpc' = [hpc EXCEPT ![t] = "idle"]
                /\ call' = [call EXCEPT ![t] = None]
           ELSE /\ arenas' = Store(arenas, a,
                                   [magic |-> Arena_MAGIC, desc |-> c.desc,
                                    num_free |-> descs[c.desc[1]].blocks_per_arena])
                /\ hpc' = [hpc EXCEPT ![t] = "carve"]
                /\ UNCHANGED call
    /\ UNCHANGED <<step_frame, used_map, panicked, descs, desc_lock, block_next,
                   int_enabled, irq_vars>>

\* Lines 67-78: the carve loop, whose to_block locks the descriptor again, and
\* the pop behind it.
a_carve(t) ==
    /\ Running(t, "carve")
    /\ LET c == call[t][1]
           d == c.desc[1]
       IN  \E junk \in JunkNexts :
           \E l \in {CarveLoop(HeapState, c.arena[1], d, 0)} :
           \E r \in {IF l.status # "ok" THEN [status |-> l.status, h |-> l.h]
                     ELSE LET p == alloc_pop(l.h, d, junk, c.arena, <<1>>)
                          IN  [status |-> p.status, h |-> p.h]} :
              /\ HeapAfter(r)
              /\ hpc' = [hpc EXCEPT ![t] = IF r.status = "spin" THEN "spin" ELSE "idle"]
    /\ UNCHANGED <<step_frame, used_map, call, int_enabled, irq_vars>>

\* What an interrupt handler calls.
IrqCalls ==
    [op : {"alloc"}, size : {1, 1025}, num : {0}]
        \cup [op : {"get_pages"}, size : {0}, num : {1}]

\* An interrupt arrives: the CPU turns interrupts off and enters
\* interrupt_entry, which invokes the registered handler (lines 78-87).
interrupt(c) ==
    /\ heap_init
    /\ ~panicked
    /\ int_enabled
    /\ irq = None
    /\ irq' = Some([call |-> c, at |-> "entry", desc |-> None, pool |-> None])
    /\ int_enabled' = FALSE
    /\ UNCHANGED <<step_frame, used_map, panicked, call, descs, desc_lock, arenas,
                   block_next, hpc, map_lock>>

RECURSIVE FindProbe(_, _)
\* The find of line 49 with the locks as they are: the descriptor it spins on,
\* or the one it finds.
FindProbe(k, size) ==
    IF k > NUM_DESCS THEN [stuck |-> None, desc |-> None]
    ELSE IF desc_lock[k] # None THEN [stuck |-> Some(k), desc |-> None]
    ELSE IF DescFits(descs[k].block_size, size) THEN [stuck |-> None, desc |-> Some(k)]
    ELSE FindProbe(k + 1, size)

\* The handler's call runs until it returns or spins on a lock; nothing else
\* runs meanwhile.  On return the CPU restores the interrupt flag.
handler_run ==
    /\ ~panicked
    /\ irq # None
    /\ irq[1].at = "entry"
    /\ LET c == irq[1].call
           f == FindProbe(1, c.size)
           pool_held == map_lock["kernel"] # None
           spin(desc, pool) == Some([irq[1] EXCEPT !.at = "spin", !.desc = desc, !.pool = pool])
       IN  IF c.op = "get_pages"
           THEN IF pool_held
                THEN /\ irq' = spin(None, Some("kernel"))
                     /\ UNCHANGED <<used_map, panicked, descs, desc_lock, arenas,
                                    block_next, int_enabled>>
                ELSE /\ used_map' = get_pages_call({}, c.num).maps
                     /\ irq' = None
                     /\ int_enabled' = TRUE
                     /\ UNCHANGED <<panicked, descs, desc_lock, arenas, block_next>>
           ELSE IF f.stuck # None
                THEN /\ irq' = spin(f.stuck, None)
                     /\ UNCHANGED <<used_map, panicked, descs, desc_lock, arenas,
                                    block_next, int_enabled>>
           ELSE IF pool_held /\ (f.desc = None \/ is_empty(descs[f.desc[1]].free_list))
                THEN /\ irq' = spin(None, Some("kernel"))
                     /\ desc_lock' = IF f.desc = None THEN desc_lock
                                     ELSE [desc_lock EXCEPT ![f.desc[1]] = Some(IrqContext)]
                     /\ UNCHANGED <<used_map, panicked, descs, arenas, block_next,
                                    int_enabled>>
           ELSE \E junk \in JunkNexts :
                \E r \in {IF f.desc # None THEN alloc_small(f.desc[1], IrqContext, junk)
                          ELSE alloc_big(c.size)} :
                   /\ HeapAfter(r)
                   /\ used_map' = r.h.maps
                   /\ irq' = IF r.status = "spin" THEN spin(f.desc, None) ELSE None
                   /\ int_enabled' = (r.status # "spin")
    /\ UNCHANGED <<step_frame, call, hpc, map_lock>>

\* Interrupts::set_level, called by a thread
thread_set_level(enabled) ==
    /\ CpuFree(irq)
    /\ set_level(enabled)

NextSteps ==
    \/ \E b \in BootInfos : MemoryInfo_init(b)
    \/ \E w \in BitWords : PageAllocator_init(USER_PAGE_LIMIT_MAX, w, w)
    \/ init_heap
    \/ \E t \in Threads, size \in StepSizes : a_enter(t, size)
    \/ \E t \in Threads : a_find(t)
    \/ \E t \in Threads : a_lock(t)
    \/ \E t \in Threads : a_check(t)
    \/ \E t \in Threads : a_pages_lock(t)
    \/ \E t \in Threads : a_pages_scan(t)
    \/ \E t \in Threads : a_stamp(t)
    \/ \E t \in Threads : a_carve(t)
    \/ \E c \in IrqCalls : interrupt(c)
    \/ handler_run
    \/ \E e \in BOOLEAN : thread_set_level(e)

SpecSteps == Init /\ [][NextSteps]_vars


-----------------------------------------------------------------------------
(* Properties of the allocate taken step by step *)

\* Thread t is between the lock of line 52 and the end of its allocate on
\* descriptor d.
InSection(t, d) ==
    /\ hpc[t] \in {"locked", "pages", "scan", "stamp", "carve", "spin"}
    /\ call[t] # None
    /\ call[t][1].desc = Some(d)

\* Descriptor d has an arena in the making: its page is there and the header is
\* not written yet, or the header is written and the blocks are not carved.
ArenaInTheMaking(d) ==
    \E t \in Threads : InSection(t, d) /\ hpc[t] \in {"stamp", "carve", "spin"}

\* C33: a thread holds the descriptor's lock from its test of the free list
\* through the stamping, the carving and the pop, so while a descriptor has an
\* arena without its header or not yet carved, no other caller is past the
\* lock of that descriptor, under any interleaving.
C33_ArenaMadeUnderLock ==
    \A d \in DescIds : \A t \in Threads :
        InSection(t, d)
        => /\ desc_lock[d] = Some(t)
           /\ \A u \in Threads \ {t} : ~InSection(u, d)

\* one thread has the page of a new arena and has not carved it, the other
\* waits for the lock of the same descriptor
C33_Witness ==
    \E d \in DescIds : \E t \in Threads : \E u \in Threads \ {t} :
        /\ ArenaInTheMaking(d)
        /\ InSection(t, d)
        /\ hpc[t] = "stamp"
        /\ hpc[u] = "lock"
        /\ call[u][1].desc = Some(d)

\* A thread holds the lock the handler spins on.
HandlerWaitsForThread ==
    /\ irq # None
    /\ irq[1].at = "spin"
    /\ \/ /\ irq[1].desc # None
          /\ \E t \in Threads : desc_lock[irq[1].desc[1]] = Some(t)
       \/ /\ irq[1].pool # None
          /\ \E t \in Threads : map_lock[irq[1].pool[1]] = Some(t)

\* The handler's call needs a lock that a thread holds: the kernel pool's for
\* get_pages, one of the descriptors its find locks for alloc.
HandlerNeedsHeldLock ==
    /\ irq # None
    /\ irq[1].at = "entry"
    /\ LET c == irq[1].call
           f == find_desc(1, c.size)
           last_d == IF f = None THEN NUM_DESCS ELSE f[1]
       IN  IF c.op = "get_pages"
           THEN \E t \in Threads : map_lock["kernel"] = Some(t)
           ELSE \E d \in 1..last_d : \E t \in Threads : desc_lock[d] = Some(t)

\* C34: a handler that calls the heap or the page allocator after interrupting
\* code that holds the descriptor or pool lock it needs ends up spinning on that
\* lock, and from then on nothing changes any more: the holder never runs, the
\* lock is never released.  A thread taking an allocator lock leaves the
\* interrupt flag as it was.
C34_HandlerSpinsForever ==
    [][/\ HandlerNeedsHeldLock => HandlerWaitsForThread'
       /\ HandlerWaitsForThread => UNCHANGED vars
       /\ (irq = None /\ irq' = None /\ (desc_lock' # desc_lock \/ map_lock' # map_lock))
          => int_enabled' = int_enabled]_vars

\* the handler spins on a descriptor lock that an interrupted thread holds, with
\* interrupts off
C34_Witness ==
    /\ HandlerWaitsForThread
    /\ irq[1].desc # None
    /\ ~int_enabled

\* the handler spins on the kernel pool's lock that an interrupted thread holds
C34_WitnessPool ==
    /\ HandlerWaitsForThread
    /\ irq[1].pool # None
    /\ irq[1].call.op = "get_pages"

====
